---- MODULE Spec2Model ----
(***************************************************************************)
(* Model of the safe MCPWM/LEDC stress test                                *)
(* (src/#3_MCPWM_DC_Motor_Control/Motor_Test/MCPWM_Test_Temp).             *)
(*                                                                         *)
(* Duties are C++ `float` (IEEE-754 binary32).  Every duty the program     *)
(* computes from integer percentages is a multiple of 2^-23, so a duty is  *)
(* held as an integer number of units of 2^-23 (ONE units = 1.0 %), and    *)
(* the float operations round such an integer to the binary32 grid exactly *)
(* as the hardware does (round to nearest, ties to even).                  *)
(*                                                                         *)
(* The supply voltage is held in millivolts at the bus: the ADC reading in *)
(* millivolts times the divider ratio.  No integer ADC reading gives       *)
(* exactly 28.0 V or 26.5 V and the float rounding of the conversion is    *)
(* far smaller than the distance of the nearest readings to the            *)
(* thresholds, so the comparisons on millivolts decide as the float        *)
(* comparisons do.                                                         *)
(*                                                                         *)
(* delay(ms) is a step boundary: the inputs may change there.  millis() is  *)
(* only ever compared with the t0 a phase routine took at its start, so    *)
(* the clock is held as the milliseconds elapsed since that t0, and it     *)
(* stops counting at the duration of the running phase, beyond which       *)
(* every test `millis() - t0 < duration` reads the same.  delay(ms) takes  *)
(* exactly ms and the code between two delays takes no time.               *)
(*                                                                         *)
(* The module also holds faultActive() (ProbeSpec), the two comparisons of *)
(* guardOverVoltage (CmpSpec), the elapsed-time test of the timed loops    *)
(* (WrapSpec) and pctToDuty10 (DutySpec) on their own, and the two         *)
(* shared-frame sketches of                                                *)
(* src/#6_Fast_≠_Correct_When_Sharing_Data/Baseball_Data_Transfer:         *)
(* 01_Race_Condition (RaceSpec) and 02_Mutex_Fix (MutexSpec).              *)
(***************************************************************************)
EXTENDS Integers, Sequences, FiniteSets, TLC

VARIABLES
    FAULT_PIN,        \* configuration: fault input pin, -1 disables it
    SUPPLY_ADC_PIN,   \* configuration: supply ADC pin, -1 disables the guard
    faultLevel,       \* input: digital level on the fault pin
    supplyMv,         \* input: ADC reading of the supply divider, millivolts
    lastPct,          \* LastCommandedDuty of the backend under test (units)
    pc,               \* position of the control flow
    targetPct,        \* safeRampTo: clamped target (units)
    delta,            \* safeRampTo: targetPct - lastPct at entry (units)
    steps,            \* safeRampTo: number of slew steps
    stepSize,         \* safeRampTo: delta / steps (units)
    i,                \* safeRampTo: loop index
    callsMade,        \* caller: safeRampTo calls started so far
    log,              \* history: backend calls of the current safeRampTo call
    entryPct,         \* history: lastPct at entry of the current call
    ret,              \* history: how the latest safeRampTo call returned
    lastCall,         \* history: the most recent backend call of all
    faultSeen,        \* history: result of the most recent faultActive()
    ovLatched,        \* history: tripped, and no reading below clear seen since
    WARMUP_MS,        \* configuration: duration of the warm-up phase
    STEP_BLOCK_MS,    \* configuration: duration of the step-load phase
    BURST_BLOCK_MS,   \* configuration: duration of the burst phase
    SOAK_MS,          \* configuration: duration of the heat-soak phase
    orch,             \* loop(): the statement it is at
    backend,          \* loop(): the backend whose drive/coast are passed on
    ph,               \* phase routine: the statement it is at
    hi,               \* do_step_load: the toggle
    el,               \* millis() - t0 of the running phase routine
    armed,            \* backends begun and not ended since
    pinModes,         \* what each of the shared pins is configured as
    idlePct,          \* LastCommandedDuty of the backend not passed on
    inputChanges,     \* changes of the inputs so far
    rampTargets,      \* history: targets of the safeRampTo calls of the phase
    onWindowCall,     \* history: last backend call before delay(BURST_ON_MS)
    disturbed,        \* history: the running phase saw a fault or a trip
    gpc,              \* guardOverVoltage alone: the statement it is at
    gMs,              \* guardOverVoltage alone: millis() - t0 of its wait loop
    gPolls,           \* guardOverVoltage alone: readings made in the wait loop
    gFirst,           \* guardOverVoltage alone: first reading of the wait loop
    gLast,            \* guardOverVoltage alone: last reading of the wait loop
    gResult,          \* guardOverVoltage alone: what it returned
    probePin,         \* faultActive alone: FAULT_PIN
    probeActiveLow,   \* faultActive alone: FAULT_ACTIVE_LOW
    probeLevel,       \* faultActive alone: level digitalRead returns
    probeResult,      \* faultActive alone: what it returned
    waitFault,        \* history: the fault input since the latest delay
    sketch,           \* shared frame: the sketch that runs
    now,              \* shared frame: millis(), in ticks of 1 ms
    frame,            \* shared frame: g_frame (score, inning, chk)
    mtx,              \* shared frame: the task that holds g_mtx
    wpc,              \* writer task: the statement it is at
    wwake,            \* writer task: tick at which its delay ends
    wlate,            \* writer task: a tick has passed since it woke
    wms,              \* writer task: its reading of millis()
    flip,             \* writer task: the toggle of the race sketch
    rpc,              \* reader task: the statement it is at
    rwake,            \* reader task: tick at which its delay ends
    rlate,            \* reader task: a tick has passed since it woke
    fcopy,            \* reader task: its copy of the frame
    left,             \* reader task: fields of the frame not copied yet
    eps,              \* reader task: the error counter
    lastMs,           \* reader task: last_ms of the race sketch
    cmpVb,            \* guard comparisons alone: the reading vb (mV at the bus)
    cmpTrip,          \* guard comparisons alone: result of the trip test
    cmpClear,         \* guard comparisons alone: result of the clear test
    ms32,             \* timed loop alone: millis(), a uint32_t as <<high, low>>
    loopT0,           \* timed loop alone: t0, a uint32_t as <<high, low>>
    loopDur,          \* timed loop alone: the duration tested against (ms)
    loopBody,         \* timed loop alone: the time one pass of the body takes
    loopRan,          \* history: the time that has passed since t0 was taken
    loopPc,           \* timed loop alone: the statement it is at
    dutyPct,          \* duty conversion alone: the argument, in eighths of 1 %
    dutyRaw,          \* duty conversion alone: pctToDuty10 of the argument, -1 before
    dutyOut           \* duty conversion alone: the duty ledc_drive writes, -1 before

vars == <<FAULT_PIN, SUPPLY_ADC_PIN, faultLevel, supplyMv, lastPct, pc,
          targetPct, delta, steps, stepSize, i, callsMade, log, entryPct,
          ret, lastCall, faultSeen, ovLatched, WARMUP_MS, STEP_BLOCK_MS,
          BURST_BLOCK_MS, SOAK_MS, orch, backend, ph, hi, el, armed, pinModes, idlePct,
          inputChanges, rampTargets, onWindowCall, disturbed, gpc, gMs,
          gPolls, gFirst, gLast, gResult, probePin, probeActiveLow,
          probeLevel, probeResult, waitFault, sketch, now, frame, mtx, wpc,
          wwake, wlate, wms, flip, rpc, rwake, rlate, fcopy, left, eps,
          lastMs, cmpVb, cmpTrip, cmpClear, ms32, loopT0, loopDur, loopBody,
          loopRan, loopPc, dutyPct, dutyRaw,
          dutyOut>>

cfgVars  == <<FAULT_PIN, SUPPLY_ADC_PIN, WARMUP_MS, STEP_BLOCK_MS,
              BURST_BLOCK_MS, SOAK_MS>>
phaseVars == <<orch, backend, ph, hi, armed, pinModes, idlePct, inputChanges,
               rampTargets, onWindowCall, disturbed>>
guardVars == <<gpc, gMs, gPolls, gFirst, gLast, gResult>>
rampVars == <<targetPct, delta, steps, stepSize, i>>
probeVars == <<probePin, probeActiveLow, probeLevel, probeResult>>

writerVars == <<wpc, wwake, wlate, wms, flip>>
readerVars == <<rpc, rwake, rlate, fcopy, left, eps, lastMs>>
dataVars == <<sketch, now, frame, mtx, writerVars, readerVars>>

cmpVars == <<cmpVb, cmpTrip, cmpClear>>
wrapVars == <<ms32, loopT0, loopDur, loopBody, loopRan, loopPc>>
dutyVars == <<dutyPct, dutyRaw, dutyOut>>
calcVars == <<cmpVars, wrapVars, dutyVars>>

motorVars == <<cfgVars, phaseVars, guardVars, rampVars, faultLevel, supplyMv,
               lastPct, pc, callsMade, log, entryPct, ret, lastCall,
               faultSeen, ovLatched, el, waitFault>>

\* the variables of the functions and sketches modelled on their own
sketchVars == <<probeVars, dataVars, calcVars>>

----------------------------------------------------------------------------
(* Bounds of the model *)

\* safeRampTo calls made in one behaviour
MaxCalls == 2

\* slew steps of the longest ramp that is started
MaxSteps == 12

\* LastCommandedDuty values safeRampTo is entered with first (percent)
StartPcts == {0, 20, 100}

\* requested targets (percent), below 0 and above 100 included
Targets == {-5, 4, 20, 22, 32, 150}

\* ADC readings (mV): 25.3 V (below clear), 26.95 V (in the band), 28.6 V
AdcMilliVolts == {2300, 2450, 2600}

Levels == {"LOW", "HIGH"}

Backends == {"MCPWM", "LEDC"}

\* pin numbers faultActive() is tried with: negative ones and GPIO numbers
ProbePins == -2 .. 45

\* readings (mV at the bus) the comparisons of guardOverVoltage are tried
\* with: the negative sentinel, zero, and every millivolt within 20 mV of
\* the clear threshold and of the trip threshold
GuardVolts == {-1000, -1, 0} \cup (26480 .. 26520) \cup (27980 .. 28020)

\* The timed loops tried across the wrap of millis(): the duration tested
\* and the time a pass of the body takes, for the wait loop of
\* guardOverVoltage (one poll delay), the warm-up loop (one slew tick and
\* its delay(10)) and the step-load loop (a ramp and its dwell), with the
\* durations the program ships
WrapLoops == {<<3000, 10>>, <<30000, 28>>, <<240000, 554>>}

\* how long before the wrap of millis() the loop takes its t0 (ms); 0 is a
\* loop that starts right at the wrap
WrapLeads == {0, 1, 1000, 100000}

\* arguments of the duty conversion tried, in eighths of 1 %: -2 % .. 102 %
DutyPcts == -16 .. 816

\* millis() when setup() of a shared-frame sketch creates the tasks
BootMsChoices == {0, 150}

\* the tick at which a shared-frame sketch is left
MaxMs == 300

\* durations of the four phases (ms).  The shipped durations are 30000,
\* 240000, 240000 and 600000 ms; these run each loop two to five times: the
\* first ramp of the warm-up takes 402 ms, a step-load pass 554 to 902 ms,
\* a burst cycle 458 to 950 ms, the first ramp of the soak 276 ms.
WarmupMsChoices == {420}
StepBlockMsChoices == {1000}
BurstBlockMsChoices == {1000}
SoakMsChoices == {300}

\* polls of the over-voltage wait loop at which the wait is seen to end: at
\* once, after one delay, after 290 ms, and at the end of the window
WaitPollChoices == {1, 2, 30, 300}

\* changes of the fault and supply inputs in one behaviour of the test
\* loop, and changes of the supply inside over-voltage wait loops
MaxInputChanges == 1

----------------------------------------------------------------------------
(* Program constants *)

FAULT_ACTIVE_LOW == TRUE
EN_PIN == 39
MAX_SLEW_STEP_PCT == 3
COAST_BEFORE_JUMP_PCT == 12
VDIV_RATIO == 11
VBUS_OV_LIMIT_MV == 28000
VBUS_CLEAR_HYS_MV == 26500
OV_WAIT_MS == 3000
OV_POLL_MS == 10
SLEW_STEP_MS == 18
COAST_BEFORE_JUMP_MS == 90
COAST_AFTER_JUMP_MS == 60
STEP_HOLD_MS == 500
BURST_ON_MS == 320
BURST_COAST_MS == 120
GAP_MS == 1200
WARMUP_TICK_MS == 10
SOAK_TICK_MS == 20
END_PHASE_MS == 50
COOLDOWN_MS == 300000
WARMUP_DUTY == 42
STEP_LOW == 35
STEP_HIGH == 75
BURST_DUTY == 88
SOAK_DUTY == 68

----------------------------------------------------------------------------
(* binary32 arithmetic on multiples of 2^-23 *)

ONE == 2^23

Pct(p) == p * ONE

Abs(x) == IF x < 0 THEN -x ELSE x

\* spacing of the binary32 grid at magnitude a, in units: 1 below 2.0,
\* 2 in [2,4), 4 in [4,8), ...
RECURSIVE Quantum(_)
Quantum(a) == IF a < 2 * ONE THEN 1 ELSE 2 * Quantum(a \div 2)

\* num/den (both >= 0) rounded to the nearest integer, ties to even
RoundNearestEven(num, den) ==
    LET q == num \div den
        r == num % den
    IN  IF 2 * r < den THEN q
        ELSE IF 2 * r > den THEN q + 1
        ELSE IF q % 2 = 0 THEN q ELSE q + 1

F32Round(n) ==
    LET a == Abs(n)
        g == Quantum(a)
        m == g * RoundNearestEven(a, g)
    IN  IF n < 0 THEN -m ELSE m

F32Add(x, y) == F32Round(x + y)

F32Sub(x, y) == F32Round(x - y)

\* x / d for a float d holding the positive integer d.  The quotients the
\* program uses are 0, at least 1.0 in magnitude, or have d = 1, where the
\* grid is no finer than one unit.
F32Div(x, d) ==
    LET a == Abs(x)
        g == Quantum(a \div d)
        m == g * RoundNearestEven(a, d * g)
    IN  IF x < 0 THEN -m ELSE m

\* ceilf of a non-negative float, as an int
CeilF(x) == (x + ONE - 1) \div ONE

----------------------------------------------------------------------------
(* Helpers of the program *)

clampPct(p) == IF p < 0 THEN 0 ELSE IF p > Pct(100) THEN Pct(100) ELSE p

\* variant: the pin number is not looked at
FaultReadAnyPin(pin, activeLow, v) ==
    IF activeLow THEN v = "LOW" ELSE v = "HIGH"

FaultRead(pin, activeLow, v) ==
    IF pin < 0 THEN FALSE
    ELSE IF activeLow THEN v = "LOW" ELSE v = "HIGH"

faultActive == FaultRead(FAULT_PIN, FAULT_ACTIVE_LOW, faultLevel)

\* bus voltage in millivolts, negative when the sensor is disabled
VbusOf(mv) == IF SUPPLY_ADC_PIN < 0 THEN -1000 ELSE mv * VDIV_RATIO

readVbusVolts == VbusOf(supplyMv)

\* variant: a reading at the trip threshold trips
OvTripsAtLimit(vb) == vb >= 0 /\ vb >= VBUS_OV_LIMIT_MV

\* if (vb >= 0.0f && vb > VBUS_OV_LIMIT_VOLTS)
OvTrips(vb) == vb >= 0 /\ vb > VBUS_OV_LIMIT_MV

\* if (vb >= 0.0f && vb < VBUS_CLEAR_HYS_VOLTS) break
OvClears(vb) == vb >= 0 /\ vb < VBUS_CLEAR_HYS_MV

\* polls of the wait loop that fit in its window
OvMaxPolls == (OV_WAIT_MS + OV_POLL_MS - 1) \div OV_POLL_MS

\* the pins the two backends share
SharedPins == {"RPWM", "LPWM", "EN"}

\* begin of a backend.  MCPWM: mcpwm_gpio_init binds LPWM and RPWM to the
\* MCPWM signals; LEDC: pinMode(LPWM, OUTPUT), ledcAttachPin(RPWM); both:
\* if (EN_PIN >= 0) pinMode(EN_PIN, OUTPUT)
PinsBegun(b) ==
    [p \in SharedPins |->
        CASE p = "EN" -> IF EN_PIN >= 0 THEN "OUTPUT" ELSE pinModes[p]
          [] p = "LPWM" -> IF b = "MCPWM" THEN "MCPWM" ELSE "OUTPUT"
          [] OTHER -> b]

\* variant: end leaves the EN pin an output
PinsReleasedKeepEn ==
    [p \in SharedPins |-> IF p = "EN" THEN pinModes[p] ELSE "INPUT"]

\* end of a backend: pinMode(RPWM_PIN, INPUT); pinMode(LPWM_PIN, INPUT);
\* if (EN_PIN >= 0) pinMode(EN_PIN, INPUT)
PinsReleased ==
    [p \in SharedPins |->
        IF p = "EN" /\ EN_PIN < 0 THEN pinModes[p] ELSE "INPUT"]

\* duration of the phase routine loop() is in, 0 outside the phase routines
PhaseMs(p) ==
    CASE p = "warmup"    -> WARMUP_MS
      [] p = "step_load" -> STEP_BLOCK_MS
      [] p = "bursts"    -> BURST_BLOCK_MS
      [] p = "soak"      -> SOAK_MS
      [] OTHER           -> 0

\* the clock ms later: it stops counting at the duration of the phase
Later(t, ms) == IF t + ms >= PhaseMs(orch) THEN PhaseMs(orch) ELSE t + ms

\* What a statement does to the history of the fault input: "wait" when the
\* statement ended in a delay, during which the input may change; "fault"
\* when the input was active at the end of a delay and has been active ever
\* since.  The history is kept while loop() runs.
AfterStmt(waits) ==
    waitFault' = IF orch = "none" THEN "none"
                 ELSE IF faultActive /\ waitFault # "none" THEN "fault"
                 ELSE IF waits THEN "wait"
                 ELSE "none"

\* delay(ms) takes exactly ms of clock time
delay(ms) == el' = Later(el, ms) /\ AfterStmt(ms > 0)

\* a statement that takes no time
noDelay == el' = el /\ AfterStmt(FALSE)

\* a change of the fault input: an active input that drops is forgotten
FaultChanged == waitFault' = IF waitFault = "fault" THEN "none" ELSE waitFault

\* variant: the quotient is truncated, ceilf forgotten
StepsOfTruncated(d) ==
    LET n == F32Div(Abs(d), MAX_SLEW_STEP_PCT) \div ONE
    IN  IF n < 1 THEN 1 ELSE n

StepsOf(d) ==
    LET n == CeilF(F32Div(Abs(d), MAX_SLEW_STEP_PCT))
    IN  IF n < 1 THEN 1 ELSE n

\* variant: every step has the full slew size
StepSizeFull(d, n) ==
    IF d < 0 THEN -Pct(MAX_SLEW_STEP_PCT) ELSE Pct(MAX_SLEW_STEP_PCT)

StepSizeOf(d, n) == F32Div(d, n)

\* variant: the threshold itself is no jump
IsJumpStrict(d) == Abs(d) > Pct(COAST_BEFORE_JUMP_PCT)

IsJump(d) == Abs(d) >= Pct(COAST_BEFORE_JUMP_PCT)

----------------------------------------------------------------------------
(* Backend calls *)

Coast == [kind |-> "coast", pct |-> 0]
Drive(p) == [kind |-> "drive", pct |-> p]
NoCall == [kind |-> "none", pct |-> 0]

----------------------------------------------------------------------------
(* Initial state: the configuration, the inputs, and the LastCommandedDuty *)
(* the first safeRampTo call is entered with                               *)

\* the durations the build is configured with
Timing ==
    /\ WARMUP_MS \in WarmupMsChoices
    /\ STEP_BLOCK_MS \in StepBlockMsChoices
    /\ BURST_BLOCK_MS \in BurstBlockMsChoices
    /\ SOAK_MS \in SoakMsChoices

\* loop() is not running: safeRampTo is called on its own
LoopOff ==
    /\ orch = "none"
    /\ backend = "MCPWM"
    /\ ph = "none"
    /\ hi = FALSE
    /\ el = 0
    /\ armed = {}
    /\ pinModes = [p \in SharedPins |-> "INPUT"]
    /\ idlePct = 0
    /\ inputChanges = 0
    /\ rampTargets = <<>>
    /\ onWindowCall = NoCall
    /\ disturbed = FALSE

\* guardOverVoltage is not being run on its own
GuardOff ==
    /\ gpc = "off"
    /\ gMs = 0
    /\ gPolls = 0
    /\ gFirst = 0
    /\ gLast = 0
    /\ gResult = "none"

\* faultActive() is not called on its own
ProbeOff ==
    /\ probePin = -1
    /\ probeActiveLow = TRUE
    /\ probeLevel = "HIGH"
    /\ probeResult = "none"

\* no shared-frame sketch runs
DataOff ==
    /\ sketch = "none"
    /\ now = 0
    /\ frame = [score |-> 0, inning |-> 1, chk |-> 0]
    /\ mtx = "free"
    /\ wpc = "read"
    /\ wwake = 0
    /\ wlate = FALSE
    /\ wms = 0
    /\ flip = FALSE
    /\ rpc = "begin"
    /\ rwake = 0
    /\ rlate = FALSE
    /\ fcopy = [score |-> 0, inning |-> 0, chk |-> 0]
    /\ left = {}
    /\ eps = 0
    /\ lastMs = 0

\* no function is tried on its own
CalcOff ==
    /\ cmpVb = 0
    /\ cmpTrip = "none"
    /\ cmpClear = "none"
    /\ ms32 = <<0, 0>>
    /\ loopT0 = <<0, 0>>
    /\ loopDur = 0
    /\ loopBody = 0
    /\ loopRan = 0
    /\ loopPc = "none"
    /\ dutyPct = 0
    /\ dutyRaw = -1
    /\ dutyOut = -1

SketchOff == ProbeOff /\ DataOff /\ CalcOff

Init ==
    /\ FAULT_PIN \in {-1, 4}
    /\ SUPPLY_ADC_PIN \in {-1, 1}
    /\ faultLevel \in (IF FAULT_PIN < 0 THEN {"HIGH"} ELSE Levels)
    /\ supplyMv \in (IF SUPPLY_ADC_PIN < 0
                     THEN {CHOOSE m \in AdcMilliVolts :
                               \A k \in AdcMilliVolts : m <= k}
                     ELSE AdcMilliVolts)
    /\ lastPct \in {Pct(p) : p \in StartPcts}
    /\ pc = "idle"
    /\ targetPct = 0
    /\ delta = 0
    /\ steps = 0
    /\ stepSize = 0
    /\ i = 0
    /\ callsMade = 0
    /\ log = <<>>
    /\ entryPct = lastPct
    /\ ret = "none"
    /\ lastCall = NoCall
    /\ faultSeen = FALSE
    /\ ovLatched = FALSE
    /\ Timing
    /\ LoopOff
    /\ GuardOff
    /\ SketchOff
    /\ waitFault = "none"

----------------------------------------------------------------------------
(* The inputs change at any instant *)

FaultInput ==
    /\ FAULT_PIN >= 0
    /\ faultLevel' \in Levels \ {faultLevel}
    /\ FaultChanged
    /\ UNCHANGED <<sketchVars, cfgVars, phaseVars, guardVars, el, supplyMv, lastPct, pc, rampVars, callsMade, log,
                   entryPct, ret, lastCall, faultSeen, ovLatched>>

SupplyInput ==
    /\ SUPPLY_ADC_PIN >= 0
    /\ supplyMv' \in AdcMilliVolts \ {supplyMv}
    /\ UNCHANGED <<sketchVars, waitFault, cfgVars, phaseVars, guardVars, el, faultLevel, lastPct, pc, rampVars, callsMade, log,
                   entryPct, ret, lastCall, faultSeen, ovLatched>>

----------------------------------------------------------------------------
(* The caller: a phase routine between two safeRampTo calls *)

\* safeRampTo(label, drive, coast, lastPct, t): clamp, delta
Call(t) ==
    /\ pc = "idle"
    /\ callsMade < MaxCalls
    /\ StepsOf(F32Sub(clampPct(Pct(t)), lastPct)) <= MaxSteps
    /\ callsMade' = callsMade + 1
    /\ targetPct' = clampPct(Pct(t))
    /\ delta' = F32Sub(targetPct', lastPct)
    /\ steps' = 0
    /\ stepSize' = 0
    /\ i' = 0
    /\ log' = <<>>
    /\ entryPct' = lastPct
    /\ ret' = "none"
    /\ pc' = "entry_fault"
    /\ noDelay
    /\ UNCHANGED <<sketchVars, cfgVars, phaseVars, guardVars, faultLevel, supplyMv, lastPct, lastCall,
                   faultSeen, ovLatched>>

\* if (faultActive()) { coast(); break; } of a phase loop
CallerFaultCheck ==
    /\ pc = "idle"
    /\ callsMade >= 1
    /\ faultSeen' = faultActive
    /\ lastCall' = IF faultActive THEN Coast ELSE lastCall
    /\ noDelay
    /\ UNCHANGED <<sketchVars, cfgVars, phaseVars, guardVars, faultLevel, supplyMv, lastPct, pc, rampVars,
                   callsMade, log, entryPct, ret, ovLatched>>

\* coast() of a phase: at the top of a burst cycle, at the end of a phase
CallerCoast ==
    /\ pc = "idle"
    /\ lastCall' = Coast
    /\ noDelay
    /\ UNCHANGED <<sketchVars, cfgVars, phaseVars, guardVars, faultLevel, supplyMv, lastPct, pc, rampVars,
                   callsMade, log, entryPct, ret, faultSeen, ovLatched>>

----------------------------------------------------------------------------
(* guardOverVoltage, called at `here`: the first reading; a trip coasts   *)
(* and enters the wait loop at `wait`, no trip goes on at `next`          *)

\* variant: the guard coasts whether it trips or not
guardOverVoltageCoasts(here, next, wait) ==
    /\ pc = here
    /\ log' = Append(log, Coast)
    /\ lastCall' = Coast
    /\ IF SUPPLY_ADC_PIN >= 0 /\ OvTrips(readVbusVolts)
       THEN /\ ovLatched' = TRUE
            /\ pc' = wait
       ELSE /\ ovLatched' = IF SUPPLY_ADC_PIN >= 0 /\ OvClears(readVbusVolts)
                            THEN FALSE ELSE ovLatched
            /\ pc' = next
    /\ noDelay
    /\ UNCHANGED <<sketchVars, cfgVars, phaseVars, guardVars, faultLevel, supplyMv, lastPct, rampVars,
                   callsMade, entryPct, ret, faultSeen>>

guardOverVoltage(here, next, wait) ==
    /\ pc = here
    /\ IF SUPPLY_ADC_PIN >= 0 /\ OvTrips(readVbusVolts)
       THEN /\ log' = Append(log, Coast)
            /\ lastCall' = Coast
            /\ ovLatched' = TRUE
            /\ pc' = wait
       ELSE /\ ovLatched' = IF SUPPLY_ADC_PIN >= 0 /\ OvClears(readVbusVolts)
                            THEN FALSE ELSE ovLatched
            /\ pc' = next
            /\ UNCHANGED <<log, lastCall>>
    /\ noDelay
    /\ UNCHANGED <<sketchVars, cfgVars, phaseVars, guardVars, faultLevel, supplyMv, lastPct, rampVars,
                   callsMade, entryPct, ret, faultSeen>>

\* The wait loop of guardOverVoltage makes n polls: the first reads the
\* present level mvNow, each poll that does not clear is followed by
\* delay(OV_POLL_MS), and the loop ends at the first poll that clears or when
\* the window is used up.  mvLast is the level read by the last poll; the
\* result is the set of the n that end the loop with that reading.
OvWaitPolls(mvNow, mvLast) ==
    {n \in 1..OvMaxPolls :
        /\ n > 1 => ~OvClears(VbusOf(mvNow))
        /\ n = 1 => mvLast = mvNow
        /\ OvClears(VbusOf(mvLast)) \/ n * OV_POLL_MS >= OV_WAIT_MS}

\* the clock at the end of the wait loop: a poll that clears breaks before
\* its delay, every other poll is followed by delay(OV_POLL_MS)
OvWaitEnds(mvNow, mvLast) ==
    {Later(el, (IF OvClears(VbusOf(mvLast)) THEN n - 1 ELSE n) * OV_POLL_MS) :
        n \in OvWaitPolls(mvNow, mvLast) \cap WaitPollChoices}

\* variant: the caller forgets `lastPct = 0`
OvWaitKeepsDuty(here, r) ==
    /\ pc = here
    /\ \E mvLast \in AdcMilliVolts :
          /\ mvLast = supplyMv \/ inputChanges < MaxInputChanges
          /\ inputChanges' = inputChanges + (IF mvLast = supplyMv THEN 0 ELSE 1)
          /\ OvWaitPolls(supplyMv, mvLast) # {}
          /\ supplyMv' = mvLast
          /\ ovLatched' = ~OvClears(VbusOf(mvLast))
          /\ el' \in OvWaitEnds(supplyMv, mvLast)
    /\ pc' = "idle"
    /\ ret' = r
    /\ AfterStmt(TRUE)
    /\ UNCHANGED <<sketchVars, cfgVars, guardVars, orch, backend, ph, hi, armed, pinModes, idlePct,
                   rampTargets, onWindowCall, disturbed, faultLevel, lastPct, rampVars, callsMade, log,
                   entryPct, lastCall, faultSeen>>

\* The wait loop, the guard's `return true`, and the caller's
\* `lastPct = 0; return`
OvWait(here, r) ==
    /\ pc = here
    /\ \E mvLast \in AdcMilliVolts :
          /\ mvLast = supplyMv \/ inputChanges < MaxInputChanges
          /\ inputChanges' = inputChanges + (IF mvLast = supplyMv THEN 0 ELSE 1)
          /\ OvWaitPolls(supplyMv, mvLast) # {}
          /\ supplyMv' = mvLast
          /\ ovLatched' = ~OvClears(VbusOf(mvLast))
          /\ el' \in OvWaitEnds(supplyMv, mvLast)
    /\ lastPct' = 0
    /\ pc' = "idle"
    /\ ret' = r
    /\ AfterStmt(TRUE)
    /\ UNCHANGED <<sketchVars, cfgVars, guardVars, orch, backend, ph, hi, armed, pinModes, idlePct,
                   rampTargets, onWindowCall, disturbed, faultLevel, rampVars, callsMade, log, entryPct,
                   lastCall, faultSeen>>

----------------------------------------------------------------------------
(* safeRampTo *)

\* variant: the fault path resets the duty as the over-voltage path does
EntryFaultResets ==
    /\ pc = "entry_fault"
    /\ faultSeen' = faultActive
    /\ IF faultActive
       THEN /\ log' = Append(log, Coast)
            /\ lastCall' = Coast
            /\ lastPct' = 0
            /\ pc' = "idle"
            /\ ret' = "fault_entry"
       ELSE /\ pc' = "entry_guard"
            /\ UNCHANGED <<log, lastCall, ret, lastPct>>
    /\ noDelay
    /\ UNCHANGED <<sketchVars, cfgVars, phaseVars, guardVars, faultLevel, supplyMv, rampVars, callsMade,
                   entryPct, ovLatched>>

\* variant: a fault seen by the previous check is remembered
EntryFaultLatched ==
    /\ pc = "entry_fault"
    /\ faultSeen' = (faultActive \/ faultSeen)
    /\ IF faultActive \/ faultSeen
       THEN /\ log' = Append(log, Coast)
            /\ lastCall' = Coast
            /\ pc' = "idle"
            /\ ret' = "fault_entry"
       ELSE /\ pc' = "entry_guard"
            /\ UNCHANGED <<log, lastCall, ret>>
    /\ noDelay
    /\ UNCHANGED <<sketchVars, cfgVars, phaseVars, guardVars, faultLevel, supplyMv, lastPct, rampVars,
                   callsMade, entryPct, ovLatched>>

\* if (faultActive()) { coast(); return; }
EntryFault ==
    /\ pc = "entry_fault"
    /\ faultSeen' = faultActive
    /\ IF faultActive
       THEN /\ log' = Append(log, Coast)
            /\ lastCall' = Coast
            /\ pc' = "idle"
            /\ ret' = "fault_entry"
       ELSE /\ pc' = "entry_guard"
            /\ UNCHANGED <<log, lastCall, ret>>
    /\ noDelay
    /\ UNCHANGED <<sketchVars, cfgVars, phaseVars, guardVars, faultLevel, supplyMv, lastPct, rampVars,
                   callsMade, entryPct, ovLatched>>

EntryGuard == guardOverVoltage("entry_guard", "jump", "entry_ovwait")

EntryOvWait == OvWait("entry_ovwait", "ov_entry")

\* coast before a large jump, delay(COAST_BEFORE_JUMP_MS); steps, stepSize
Jump ==
    /\ pc = "jump"
    /\ IF IsJump(delta)
       THEN /\ log' = Append(log, Coast)
            /\ lastCall' = Coast
       ELSE UNCHANGED <<log, lastCall>>
    /\ steps' = StepsOf(delta)
    /\ stepSize' = StepSizeOf(delta, steps')
    /\ i' = 0
    /\ delay(IF IsJump(delta) THEN COAST_BEFORE_JUMP_MS ELSE 0)
    /\ pc' = IF 0 < steps' THEN "step_fault" ELSE "after"
    /\ UNCHANGED <<sketchVars, cfgVars, phaseVars, guardVars, faultLevel, supplyMv, lastPct, targetPct, delta,
                   callsMade, entryPct, ret, faultSeen, ovLatched>>

\* variant: the per-step fault check does not abort the ramp
StepFaultIgnored ==
    /\ pc = "step_fault"
    /\ i < steps
    /\ lastPct' = F32Add(lastPct, stepSize)
    /\ faultSeen' = faultActive
    /\ pc' = "step_guard"
    /\ noDelay
    /\ UNCHANGED <<sketchVars, cfgVars, phaseVars, guardVars, faultLevel, supplyMv, rampVars, callsMade, log,
                   entryPct, ret, lastCall, ovLatched>>

\* variant: the per-step fault exit resets LastCommandedDuty like a trip
StepFaultZeroes ==
    /\ pc = "step_fault"
    /\ i < steps
    /\ lastPct' = IF faultActive THEN 0 ELSE F32Add(lastPct, stepSize)
    /\ faultSeen' = faultActive
    /\ IF faultActive
       THEN /\ log' = Append(log, Coast)
            /\ lastCall' = Coast
            /\ pc' = "idle"
            /\ ret' = "fault_step"
       ELSE /\ pc' = "step_guard"
            /\ UNCHANGED <<log, lastCall, ret>>
    /\ noDelay
    /\ UNCHANGED <<sketchVars, cfgVars, phaseVars, guardVars, faultLevel, supplyMv, rampVars, callsMade,
                   entryPct, ovLatched>>

\* variant: only the first step of a ramp checks the fault input
StepFaultOnlyFirst ==
    /\ pc = "step_fault"
    /\ i < steps
    /\ lastPct' = F32Add(lastPct, stepSize)
    /\ IF i = 0
       THEN /\ faultSeen' = faultActive
            /\ IF faultActive
               THEN /\ log' = Append(log, Coast)
                    /\ lastCall' = Coast
                    /\ pc' = "idle"
                    /\ ret' = "fault_step"
               ELSE /\ pc' = "step_guard"
                    /\ UNCHANGED <<log, lastCall, ret>>
       ELSE /\ pc' = "step_guard"
            /\ UNCHANGED <<faultSeen, log, lastCall, ret>>
    /\ noDelay
    /\ UNCHANGED <<sketchVars, cfgVars, phaseVars, guardVars, faultLevel, supplyMv, rampVars, callsMade,
                   entryPct, ovLatched>>

\* lastPct += stepSize; if (faultActive()) { coast(); return; }
StepFault ==
    /\ pc = "step_fault"
    /\ i < steps
    /\ lastPct' = F32Add(lastPct, stepSize)
    /\ faultSeen' = faultActive
    /\ IF faultActive
       THEN /\ log' = Append(log, Coast)
            /\ lastCall' = Coast
            /\ pc' = "idle"
            /\ ret' = "fault_step"
       ELSE /\ pc' = "step_guard"
            /\ UNCHANGED <<log, lastCall, ret>>
    /\ noDelay
    /\ UNCHANGED <<sketchVars, cfgVars, phaseVars, guardVars, faultLevel, supplyMv, rampVars, callsMade,
                   entryPct, ovLatched>>

StepGuard == guardOverVoltage("step_guard", "step_drive", "step_ovwait")

StepOvWait == OvWait("step_ovwait", "ov_step")

\* drive(lastPct); delay(SLEW_STEP_MS); ++i
StepDrive ==
    /\ pc = "step_drive"
    /\ log' = Append(log, Drive(lastPct))
    /\ lastCall' = Drive(lastPct)
    /\ i' = i + 1
    /\ delay(SLEW_STEP_MS)
    /\ pc' = IF i + 1 < steps THEN "step_fault" ELSE "after"
    /\ UNCHANGED <<sketchVars, cfgVars, phaseVars, guardVars, faultLevel, supplyMv, lastPct, targetPct, delta,
                   steps, stepSize, callsMade, entryPct, ret, faultSeen,
                   ovLatched>>

\* coast after a large jump, delay(COAST_AFTER_JUMP_MS); return
After ==
    /\ pc = "after"
    /\ IF IsJump(delta)
       THEN /\ log' = Append(log, Coast)
            /\ lastCall' = Coast
       ELSE UNCHANGED <<log, lastCall>>
    /\ pc' = "idle"
    /\ ret' = "done"
    /\ delay(IF IsJump(delta) THEN COAST_AFTER_JUMP_MS ELSE 0)
    /\ UNCHANGED <<sketchVars, cfgVars, phaseVars, guardVars, faultLevel, supplyMv, lastPct, rampVars,
                   callsMade, entryPct, faultSeen, ovLatched>>

----------------------------------------------------------------------------

Next ==
    \/ FaultInput
    \/ SupplyInput
    \/ \E t \in Targets : Call(t)
    \/ CallerFaultCheck
    \/ CallerCoast
    \/ EntryFault
    \/ EntryGuard
    \/ EntryOvWait
    \/ Jump
    \/ StepFault
    \/ StepGuard
    \/ StepOvWait
    \/ StepDrive
    \/ After

Spec == Init /\ [][Next]_vars

----------------------------------------------------------------------------
(* The test loop: loop() of main.cpp and the four phase routines.  loop()  *)
(* passes mcpwm_drive/mcpwm_coast and mcpwmLastPct to the phases of its    *)
(* first half and the LEDC ones to those of its second half; `backend`     *)
(* names the half, lastPct is the LastCommandedDuty passed by reference    *)
(* and idlePct the one of the other backend.                               *)

Other(b) == IF b = "MCPWM" THEN "LEDC" ELSE "MCPWM"

PhaseNames == {"warmup", "step_load", "bursts", "soak"}

\* the statement of loop() that follows statement o
NextStmt(o) ==
    CASE o = "begin"     -> "warmup"
      [] o = "warmup"    -> "step_load"
      [] o = "step_load" -> "bursts"
      [] o = "bursts"    -> "soak"
      [] o = "soak"      -> "end"
      [] o = "end"       -> "cooldown"
      [] o = "cooldown"  -> "begin"

\* target of the safeRampTo call of phase p (percent)
PhaseTarget(p, h) ==
    CASE p = "warmup"    -> WARMUP_DUTY
      [] p = "step_load" -> IF h THEN STEP_HIGH ELSE STEP_LOW
      [] p = "bursts"    -> BURST_DUTY
      [] p = "soak"      -> SOAK_DUTY

\* variant: every loop ticks as the warm-up does
TickMsShort(p) == WARMUP_TICK_MS

\* delay at the bottom of the loop of phase p
TickMs(p) ==
    CASE p = "warmup"    -> WARMUP_TICK_MS
      [] p = "step_load" -> STEP_HOLD_MS
      [] p = "bursts"    -> BURST_ON_MS
      [] p = "soak"      -> SOAK_TICK_MS

\* delay after the closing coast() of phase p
EndGapMs(p) == IF p = "soak" THEN GAP_MS ELSE BURST_COAST_MS

LoopInit ==
    /\ FAULT_PIN \in {-1, 4}
    /\ SUPPLY_ADC_PIN \in {-1, 1}
    /\ faultLevel \in (IF FAULT_PIN < 0 THEN {"HIGH"} ELSE Levels)
    /\ supplyMv \in (IF SUPPLY_ADC_PIN < 0
                     THEN {CHOOSE m \in AdcMilliVolts :
                               \A k \in AdcMilliVolts : m <= k}
                     ELSE AdcMilliVolts)
    /\ Timing
    /\ lastPct = 0
    /\ idlePct = 0
    /\ backend = "MCPWM"
    /\ orch = "begin"
    /\ ph = "none"
    /\ hi = FALSE
    /\ el = 0
    /\ armed = {}
    /\ pinModes = [p \in SharedPins |-> "INPUT"]
    /\ inputChanges = 0
    /\ rampTargets = <<>>
    /\ onWindowCall = NoCall
    /\ disturbed = FALSE
    /\ pc = "idle"
    /\ targetPct = 0
    /\ delta = 0
    /\ steps = 0
    /\ stepSize = 0
    /\ i = 0
    /\ callsMade = 0
    /\ log = <<>>
    /\ entryPct = 0
    /\ ret = "none"
    /\ lastCall = NoCall
    /\ faultSeen = FALSE
    /\ ovLatched = FALSE
    /\ GuardOff
    /\ SketchOff
    /\ waitFault = "none"

\* The program sees an input only when it reads it, so a change between two
\* reads is placed right before the second one, or in the delay it falls
\* into.

\* the fault input changes before a faultActive()
FaultEdge ==
    /\ FAULT_PIN >= 0
    /\ \/ pc \in {"entry_fault", "step_fault"}
       \/ pc = "idle" /\ ph = "check"
       \/ waitFault = "wait"
    /\ inputChanges < MaxInputChanges
    /\ inputChanges' = inputChanges + 1
    /\ faultLevel' \in Levels \ {faultLevel}
    /\ FaultChanged
    /\ UNCHANGED <<sketchVars, cfgVars, guardVars, supplyMv, lastPct, pc, rampVars,
                   callsMade, log, entryPct, ret, lastCall, faultSeen,
                   ovLatched, orch, backend, ph, hi, el, armed, pinModes, idlePct,
                   rampTargets, onWindowCall, disturbed>>

\* the supply voltage changes before the first readVbusVolts() of a guard
SupplyEdge ==
    /\ SUPPLY_ADC_PIN >= 0
    /\ pc \in {"entry_guard", "step_guard"}
    /\ inputChanges < MaxInputChanges
    /\ inputChanges' = inputChanges + 1
    /\ supplyMv' \in AdcMilliVolts \ {supplyMv}
    /\ UNCHANGED <<sketchVars, waitFault, cfgVars, guardVars, faultLevel, lastPct, pc, rampVars,
                   callsMade, log, entryPct, ret, lastCall, faultSeen,
                   ovLatched, orch, backend, ph, hi, el, armed, pinModes, idlePct,
                   rampTargets, onWindowCall, disturbed>>

\* what no statement of loop() or of a phase routine outside safeRampTo
\* touches
rampState == <<sketchVars, cfgVars, guardVars, faultLevel, supplyMv, pc, rampVars,
               callsMade, log, entryPct, ret, ovLatched, inputChanges>>

\* variant: loop() begins the backend it is not about to pass on
begin_phase_other ==
    /\ orch = "begin"
    /\ armed' = armed \cup {Other(backend)}
    /\ pinModes' = PinsBegun(Other(backend))
    /\ orch' = "warmup"
    /\ ph' = "start"
    /\ noDelay
    /\ UNCHANGED <<rampState, lastPct, lastCall, faultSeen, backend, hi, idlePct, rampTargets, onWindowCall, disturbed>>

\* mcpwm_begin_phase() / ledc_begin_phase(): the backend owns the pins and
\* is enabled; then the call of do_warmup
begin_phase ==
    /\ orch = "begin"
    /\ armed' = armed \cup {backend}
    /\ pinModes' = PinsBegun(backend)
    /\ orch' = "warmup"
    /\ ph' = "start"
    /\ noDelay
    /\ UNCHANGED <<rampState, lastPct, lastCall, faultSeen, backend, hi, idlePct, rampTargets, onWindowCall, disturbed>>

\* entry of a phase routine: const uint32_t t0 = millis(); bool hi = false
PhaseStart ==
    /\ orch \in PhaseNames
    /\ ph = "start"
    /\ el' = 0
    /\ hi' = FALSE
    /\ rampTargets' = <<>>
    /\ onWindowCall' = NoCall
    /\ disturbed' = FALSE
    /\ ph' = "test"
    /\ AfterStmt(FALSE)
    /\ UNCHANGED <<rampState, lastPct, lastCall, faultSeen, orch, backend,
                   armed, pinModes, idlePct>>

\* while (millis() - t0 < duration)
LoopTest ==
    /\ orch \in PhaseNames
    /\ ph = "test"
    /\ ph' = IF el < PhaseMs(orch)
             THEN (IF orch = "bursts" THEN "gap" ELSE "ramp")
             ELSE "end"
    /\ noDelay
    /\ UNCHANGED <<rampState, lastPct, lastCall, faultSeen, orch, backend,
                   hi, armed, pinModes, idlePct, rampTargets, onWindowCall,
                   disturbed>>

\* do_bursts: coast(); delay(BURST_COAST_MS)
BurstGap ==
    /\ orch = "bursts"
    /\ ph = "gap"
    /\ lastCall' = Coast
    /\ delay(BURST_COAST_MS)
    /\ ph' = "ramp"
    /\ UNCHANGED <<rampState, lastPct, faultSeen, orch, backend, hi, armed, pinModes,
                   idlePct, rampTargets, onWindowCall, disturbed>>

\* safeRampTo(label, drive, coast, lastPct, target): clamp, delta
PhaseRamp ==
    /\ orch \in PhaseNames
    /\ ph = "ramp"
    /\ pc = "idle"
    /\ targetPct' = clampPct(Pct(PhaseTarget(orch, hi)))
    /\ delta' = F32Sub(targetPct', lastPct)
    /\ steps' = 0
    /\ stepSize' = 0
    /\ i' = 0
    /\ log' = <<>>
    /\ entryPct' = lastPct
    /\ ret' = "none"
    /\ pc' = "entry_fault"
    /\ rampTargets' = Append(rampTargets, PhaseTarget(orch, hi))
    /\ ph' = "check"
    /\ noDelay
    /\ UNCHANGED <<sketchVars, cfgVars, guardVars, faultLevel, supplyMv, callsMade,
                   ovLatched, inputChanges, lastPct, lastCall, faultSeen,
                   orch, backend, hi, armed, pinModes, idlePct, onWindowCall,
                   disturbed>>

\* variant: the routine coasts and waits in place for the fault to clear
PhaseFaultWaits ==
    /\ orch \in PhaseNames
    /\ ph = "check"
    /\ pc = "idle"
    /\ faultSeen' = faultActive
    /\ disturbed' = (disturbed \/ ret # "done" \/ faultActive)
    /\ lastCall' = IF faultActive THEN Coast ELSE lastCall
    /\ ph' = IF faultActive THEN "check" ELSE "tick"
    /\ noDelay
    /\ UNCHANGED <<rampState, lastPct, orch, backend, hi, armed, pinModes, idlePct,
                   rampTargets, onWindowCall>>

\* variant: an over-voltage return of safeRampTo also leaves the loop
PhaseFaultLeavesOnTrip ==
    /\ orch \in PhaseNames
    /\ ph = "check"
    /\ pc = "idle"
    /\ faultSeen' = faultActive
    /\ disturbed' = (disturbed \/ ret # "done" \/ faultActive)
    /\ lastCall' = IF faultActive THEN Coast ELSE lastCall
    /\ ph' = IF faultActive \/ ret \in {"ov_entry", "ov_step"}
             THEN "end" ELSE "tick"
    /\ noDelay
    /\ UNCHANGED <<rampState, lastPct, orch, backend, hi, armed, pinModes, idlePct,
                   rampTargets, onWindowCall>>

\* variant: the routine coasts on a fault but stays in its loop
PhaseFaultIgnored ==
    /\ orch \in PhaseNames
    /\ ph = "check"
    /\ pc = "idle"
    /\ faultSeen' = faultActive
    /\ disturbed' = (disturbed \/ ret # "done" \/ faultActive)
    /\ lastCall' = IF faultActive THEN Coast ELSE lastCall
    /\ ph' = "tick"
    /\ noDelay
    /\ UNCHANGED <<rampState, lastPct, orch, backend, hi, armed, pinModes, idlePct,
                   rampTargets, onWindowCall>>

\* safeRampTo has returned: if (faultActive()) { coast(); break; }
PhaseFault ==
    /\ orch \in PhaseNames
    /\ ph = "check"
    /\ pc = "idle"
    /\ faultSeen' = faultActive
    /\ disturbed' = (disturbed \/ ret # "done" \/ faultActive)
    /\ lastCall' = IF faultActive THEN Coast ELSE lastCall
    /\ ph' = IF faultActive THEN "end" ELSE "tick"
    /\ noDelay
    /\ UNCHANGED <<rampState, lastPct, orch, backend, hi, armed, pinModes, idlePct,
                   rampTargets, onWindowCall>>

\* variant: do_step_load never toggles
PhaseTickSameTarget ==
    /\ orch \in PhaseNames
    /\ ph = "tick"
    /\ delay(TickMs(orch))
    /\ onWindowCall' = IF orch = "bursts" THEN lastCall ELSE onWindowCall
    /\ ph' = "test"
    /\ UNCHANGED <<rampState, lastPct, lastCall, faultSeen, orch, backend,
                   hi, armed, pinModes, idlePct, rampTargets, disturbed>>

\* the delay at the bottom of the loop: delay(10) of do_warmup,
\* delay(STEP_HOLD_MS); hi = !hi of do_step_load, delay(BURST_ON_MS) of
\* do_bursts, delay(20) of do_soak
PhaseTick ==
    /\ orch \in PhaseNames
    /\ ph = "tick"
    /\ delay(TickMs(orch))
    /\ hi' = IF orch = "step_load" THEN ~hi ELSE hi
    /\ onWindowCall' = IF orch = "bursts" THEN lastCall ELSE onWindowCall
    /\ ph' = "test"
    /\ UNCHANGED <<rampState, lastPct, lastCall, faultSeen, orch, backend,
                   armed, pinModes, idlePct, rampTargets, disturbed>>

\* variant: the routine returns without its closing coast()
PhaseEndNoCoast ==
    /\ orch \in PhaseNames
    /\ ph = "end"
    /\ delay(EndGapMs(orch))
    /\ orch' = NextStmt(orch)
    /\ ph' = IF orch = "soak" THEN "none" ELSE "start"
    /\ UNCHANGED <<rampState, lastPct, lastCall, faultSeen, backend, hi,
                   armed, pinModes, idlePct, rampTargets, onWindowCall, disturbed>>

\* variant: a routine left on a fault makes loop() skip the phases that
\* are left
PhaseEndSkips ==
    /\ orch \in PhaseNames
    /\ ph = "end"
    /\ lastCall' = Coast
    /\ delay(EndGapMs(orch))
    /\ orch' = IF faultSeen THEN "end" ELSE NextStmt(orch)
    /\ ph' = IF orch = "soak" \/ faultSeen THEN "none" ELSE "start"
    /\ UNCHANGED <<rampState, lastPct, faultSeen, backend, hi, armed, pinModes,
                   idlePct, rampTargets, onWindowCall, disturbed>>

\* after the loop: coast(); delay(gap); the routine returns and loop() goes
\* on with its next statement
PhaseEnd ==
    /\ orch \in PhaseNames
    /\ ph = "end"
    /\ lastCall' = Coast
    /\ delay(EndGapMs(orch))
    /\ orch' = NextStmt(orch)
    /\ ph' = IF orch = "soak" THEN "none" ELSE "start"
    /\ UNCHANGED <<rampState, lastPct, faultSeen, backend, hi, armed, pinModes,
                   idlePct, rampTargets, onWindowCall, disturbed>>

\* variant: the pins are not released
end_phase_keeps ==
    /\ orch = "end"
    /\ lastCall' = Coast
    /\ delay(END_PHASE_MS)
    /\ orch' = "cooldown"
    /\ UNCHANGED <<rampState, lastPct, faultSeen, backend, ph, hi, armed, pinModes,
                   idlePct, rampTargets, onWindowCall, disturbed>>

\* mcpwm_end_phase() / ledc_end_phase(): coast, release the pins, delay(50)
end_phase ==
    /\ orch = "end"
    /\ lastCall' = Coast
    /\ armed' = armed \ {backend}
    /\ pinModes' = PinsReleased
    /\ delay(END_PHASE_MS)
    /\ orch' = "cooldown"
    /\ UNCHANGED <<rampState, lastPct, faultSeen, backend, ph, hi, idlePct,
                   rampTargets, onWindowCall, disturbed>>

\* variant: both halves of loop() pass the same LastCommandedDuty
CooldownShared ==
    /\ orch = "cooldown"
    /\ delay(COOLDOWN_MS)
    /\ backend' = Other(backend)
    /\ orch' = "begin"
    /\ UNCHANGED <<rampState, lastPct, idlePct, lastCall, faultSeen, ph, hi,
                   armed, pinModes, rampTargets, onWindowCall, disturbed>>

\* delay(300000); loop() goes on with the other backend and its
\* LastCommandedDuty
Cooldown ==
    /\ orch = "cooldown"
    /\ delay(COOLDOWN_MS)
    /\ backend' = Other(backend)
    /\ lastPct' = idlePct
    /\ idlePct' = lastPct
    /\ orch' = "begin"
    /\ UNCHANGED <<rampState, lastCall, faultSeen, ph, hi, armed, pinModes,
                   rampTargets, onWindowCall, disturbed>>

\* a step of safeRampTo, called by a phase routine
RampStep ==
    \/ EntryFault
    \/ EntryGuard
    \/ EntryOvWait
    \/ Jump
    \/ StepFault
    \/ StepGuard
    \/ StepOvWait
    \/ StepDrive
    \/ After

\* a step of the program
ProgramStep ==
    \/ begin_phase
    \/ PhaseStart
    \/ LoopTest
    \/ BurstGap
    \/ PhaseRamp
    \/ PhaseFault
    \/ PhaseTick
    \/ PhaseEnd
    \/ end_phase
    \/ Cooldown
    \/ RampStep

LoopNext ==
    \/ FaultEdge
    \/ SupplyEdge
    \/ ProgramStep

LoopSpec == LoopInit /\ [][LoopNext]_vars

\* the program keeps running: the millisecond clock advances and every
\* delay ends
LoopLive == LoopSpec /\ WF_vars(ProgramStep)

----------------------------------------------------------------------------
(* guardOverVoltage on its own, its wait loop poll by poll: gMs is         *)
(* millis() - t0 of the loop                                               *)

GuardInit ==
    /\ FAULT_PIN = -1
    /\ SUPPLY_ADC_PIN \in {-1, 1}
    /\ faultLevel = "HIGH"
    /\ supplyMv \in (IF SUPPLY_ADC_PIN < 0
                     THEN {CHOOSE m \in AdcMilliVolts :
                               \A k \in AdcMilliVolts : m <= k}
                     ELSE AdcMilliVolts)
    /\ Timing
    /\ LoopOff
    /\ lastPct = 0
    /\ pc = "idle"
    /\ targetPct = 0
    /\ delta = 0
    /\ steps = 0
    /\ stepSize = 0
    /\ i = 0
    /\ callsMade = 0
    /\ log = <<>>
    /\ entryPct = 0
    /\ ret = "none"
    /\ lastCall = NoCall
    /\ faultSeen = FALSE
    /\ ovLatched = FALSE
    /\ gpc = "read"
    /\ gMs = 0
    /\ gPolls = 0
    /\ gFirst = 0
    /\ gLast = 0
    /\ gResult = "none"
    /\ SketchOff
    /\ waitFault = "none"

\* what guardOverVoltage on its own leaves alone
guardFrame == <<sketchVars, waitFault, cfgVars, phaseVars, faultLevel, supplyMv, lastPct, pc,
                rampVars, callsMade, log, entryPct, ret, faultSeen,
                ovLatched, el>>

\* if (SUPPLY_ADC_PIN < 0) return false; vb = readVbusVolts();
\* if (vb >= 0 && vb > LIMIT) { coastFn(); t0 = millis(); ... } return false
GuardRead ==
    /\ gpc = "read"
    /\ IF SUPPLY_ADC_PIN >= 0 /\ OvTrips(readVbusVolts)
       THEN /\ lastCall' = Coast
            /\ gMs' = 0
            /\ gpc' = "test"
            /\ UNCHANGED gResult
       ELSE /\ gResult' = "false"
            /\ gpc' = "returned"
            /\ UNCHANGED <<lastCall, gMs>>
    /\ UNCHANGED <<guardFrame, gPolls, gFirst, gLast>>

\* while (millis() - t0 < 3000U); after the loop: return true
GuardTest ==
    /\ gpc = "test"
    /\ IF gMs < OV_WAIT_MS
       THEN /\ gpc' = "poll"
            /\ UNCHANGED gResult
       ELSE /\ gResult' = "true"
            /\ gpc' = "returned"
    /\ UNCHANGED <<guardFrame, lastCall, gMs, gPolls, gFirst, gLast>>

\* variant: the clock does not advance in the loop body
GuardPollNoDelay ==
    /\ gpc = "poll"
    /\ gPolls' = gPolls
    /\ gFirst' = IF gPolls = 0 THEN supplyMv ELSE gFirst
    /\ gLast' = supplyMv
    /\ IF OvClears(readVbusVolts)
       THEN /\ gResult' = "true"
            /\ gpc' = "returned"
            /\ UNCHANGED gMs
       ELSE /\ gMs' = gMs
            /\ gpc' = "test"
            /\ UNCHANGED gResult
    /\ UNCHANGED <<guardFrame, lastCall>>

\* vb = readVbusVolts(); if (vb >= 0 && vb < CLEAR) break; delay(10)
GuardPoll ==
    /\ gpc = "poll"
    /\ gPolls' = gPolls + 1
    /\ gFirst' = IF gPolls = 0 THEN supplyMv ELSE gFirst
    /\ gLast' = supplyMv
    /\ IF OvClears(readVbusVolts)
       THEN /\ gResult' = "true"
            /\ gpc' = "returned"
            /\ UNCHANGED gMs
       ELSE /\ gMs' = gMs + OV_POLL_MS
            /\ gpc' = "test"
            /\ UNCHANGED gResult
    /\ UNCHANGED <<guardFrame, lastCall>>

GuardStep ==
    \/ GuardRead
    \/ GuardTest
    \/ GuardPoll

GuardNext ==
    \/ SupplyInput
    \/ GuardStep

\* the millisecond clock advances and every delay ends; the supply may
\* change at any instant or never
GuardLive == GuardInit /\ [][GuardNext]_vars /\ WF_vars(GuardStep)

----------------------------------------------------------------------------
(* faultActive() on its own, for every pin number, polarity and level *)

\* the stress test is not running
MotorOff ==
    /\ FAULT_PIN = -1
    /\ SUPPLY_ADC_PIN = -1
    /\ faultLevel = "HIGH"
    /\ supplyMv = CHOOSE m \in AdcMilliVolts : \A k \in AdcMilliVolts : m <= k
    /\ lastPct = 0
    /\ pc = "idle"
    /\ targetPct = 0
    /\ delta = 0
    /\ steps = 0
    /\ stepSize = 0
    /\ i = 0
    /\ callsMade = 0
    /\ log = <<>>
    /\ entryPct = 0
    /\ ret = "none"
    /\ lastCall = NoCall
    /\ faultSeen = FALSE
    /\ ovLatched = FALSE
    /\ Timing
    /\ LoopOff
    /\ GuardOff
    /\ waitFault = "none"

ProbeInit ==
    /\ MotorOff
    /\ DataOff
    /\ CalcOff
    /\ probePin \in ProbePins
    /\ probeActiveLow \in BOOLEAN
    /\ probeLevel \in Levels
    /\ probeResult = "none"

\* bool faultActive(): if (pin < 0) return false; v = digitalRead(pin);
\* return ACTIVE_LOW ? (v == LOW) : (v == HIGH)
ProbeCall ==
    /\ probeResult = "none"
    /\ probeResult' = IF FaultRead(probePin, probeActiveLow, probeLevel)
                      THEN "true" ELSE "false"
    /\ UNCHANGED <<motorVars, dataVars, calcVars, probePin, probeActiveLow,
                   probeLevel>>

\* the level on the pin changes, and faultActive() is called again
ProbeLevel ==
    /\ probeResult # "none"
    /\ probeLevel' \in Levels \ {probeLevel}
    /\ probeResult' = "none"
    /\ UNCHANGED <<motorVars, dataVars, calcVars, probePin, probeActiveLow>>

ProbeNext ==
    \/ ProbeCall
    \/ ProbeLevel

ProbeSpec == ProbeInit /\ [][ProbeNext]_vars

----------------------------------------------------------------------------
(* The two comparisons of guardOverVoltage on their own, for readings at  *)
(* and around the thresholds.  The thresholds 28.0 and 26.5 are binary32  *)
(* values and a comparison of two floats is exact, so the comparisons on  *)
(* millivolts decide as the float comparisons do.                         *)

CmpInit ==
    /\ MotorOff
    /\ ProbeOff
    /\ DataOff
    /\ cmpVb \in GuardVolts
    /\ cmpTrip = "none"
    /\ cmpClear = "none"
    /\ ms32 = <<0, 0>>
    /\ loopT0 = <<0, 0>>
    /\ loopDur = 0
    /\ loopBody = 0
    /\ loopRan = 0
    /\ loopPc = "none"
    /\ dutyPct = 0
    /\ dutyRaw = -1
    /\ dutyOut = -1

\* the test before the wait loop
CmpTrip ==
    /\ cmpTrip = "none"
    /\ cmpTrip' = IF OvTrips(cmpVb) THEN "true" ELSE "false"
    /\ UNCHANGED <<motorVars, probeVars, dataVars, wrapVars, dutyVars,
                   cmpVb, cmpClear>>

\* the test inside the wait loop
CmpClear ==
    /\ cmpClear = "none"
    /\ cmpClear' = IF OvClears(cmpVb) THEN "true" ELSE "false"
    /\ UNCHANGED <<motorVars, probeVars, dataVars, wrapVars, dutyVars,
                   cmpVb, cmpTrip>>

CmpNext ==
    \/ CmpTrip
    \/ CmpClear

CmpSpec == CmpInit /\ [][CmpNext]_vars

----------------------------------------------------------------------------
(* The elapsed-time test `millis() - t0 < duration` on its own, with      *)
(* millis() a uint32_t that wraps at 2^32.  A uint32_t is held as its two *)
(* 16-bit halves <<high, low>>.                                           *)

HALF == 65536

\* the uint32_t of a number below 2^31
U32(n) == <<n \div HALF, n % HALF>>

\* a + n in uint32_t arithmetic, n below 2^31
U32Add(a, n) ==
    LET low == a[2] + (n % HALF)
    IN  <<(a[1] + (n \div HALF) + (low \div HALF)) % HALF, low % HALF>>

\* variant: a difference that would be negative is taken as 0
U32SubNoWrap(a, b) ==
    IF a[1] < b[1] \/ (a[1] = b[1] /\ a[2] < b[2])
    THEN <<0, 0>>
    ELSE LET low == a[2] - b[2]
         IN  <<(a[1] - b[1] - (IF low < 0 THEN 1 ELSE 0)) % HALF, low % HALF>>

\* a - b in uint32_t arithmetic: the difference modulo 2^32
U32Sub(a, b) ==
    LET low == a[2] - b[2]
    IN  <<(a[1] - b[1] - (IF low < 0 THEN 1 ELSE 0)) % HALF, low % HALF>>

\* a < b of two uint32_t
U32Lt(a, b) == a[1] < b[1] \/ (a[1] = b[1] /\ a[2] < b[2])

WrapInit ==
    /\ MotorOff
    /\ ProbeOff
    /\ DataOff
    /\ cmpVb = 0
    /\ cmpTrip = "none"
    /\ cmpClear = "none"
    /\ \E lead \in WrapLeads :
          ms32 = IF lead = 0 THEN <<0, 0>>
                 ELSE <<HALF - 1 - ((lead - 1) \div HALF),
                        HALF - 1 - ((lead - 1) % HALF)>>
    /\ \E l \in WrapLoops : loopDur = l[1] /\ loopBody = l[2]
    /\ loopT0 = <<0, 0>>
    /\ loopRan = 0
    /\ loopPc = "enter"
    /\ dutyPct = 0
    /\ dutyRaw = -1
    /\ dutyOut = -1

\* const uint32_t t0 = millis()
WrapEnter ==
    /\ loopPc = "enter"
    /\ loopT0' = ms32
    /\ loopRan' = 0
    /\ loopPc' = "test"
    /\ UNCHANGED <<motorVars, probeVars, dataVars, cmpVars, dutyVars, ms32,
                   loopDur, loopBody>>

\* while (millis() - t0 < duration)
WrapTest ==
    /\ loopPc = "test"
    /\ loopPc' = IF U32Lt(U32Sub(ms32, loopT0), U32(loopDur))
                 THEN "body" ELSE "left"
    /\ UNCHANGED <<motorVars, probeVars, dataVars, cmpVars, dutyVars, ms32,
                   loopT0, loopDur, loopBody, loopRan>>

\* the body of the loop and its delays
WrapBody ==
    /\ loopPc = "body"
    /\ ms32' = U32Add(ms32, loopBody)
    /\ loopRan' = loopRan + loopBody
    /\ loopPc' = "test"
    /\ UNCHANGED <<motorVars, probeVars, dataVars, cmpVars, dutyVars, loopT0,
                   loopDur, loopBody>>

WrapNext ==
    \/ WrapEnter
    \/ WrapTest
    \/ WrapBody

WrapSpec == WrapInit /\ [][WrapNext]_vars

----------------------------------------------------------------------------
(* pctToDuty10() and ledc_drive() on their own.  The arguments tried are  *)
(* the multiples of one eighth of a percent, which binary32 holds         *)
(* exactly; dutyPct counts eighths.                                       *)

LEDC_BITS == 10

MIN_EFFECTIVE_LEDC == 0

\* the float of dutyPct, in units of 2^-23
DutyArg == dutyPct * (ONE \div 8)

RECURSIVE ShiftDiv(_, _, _)
\* <<quotient, remainder>> of n * 2^k by den, one bit at a time
ShiftDiv(n, den, k) ==
    IF k = 0 THEN <<n \div den, n % den>>
    ELSE LET h == ShiftDiv(n, den, k - 1)
         IN  <<2 * h[1] + ((2 * h[2]) \div den), (2 * h[2]) % den>>

\* the binary32 quotient of two floats in the ratio n : den, at least 1.0:
\* <<m, k>> stands for m / 2^k, m the 24-bit significand of the quotient
\* rounded to nearest, ties to even
F32Ratio(n, den) ==
    LET e == CHOOSE x \in 0 .. 20 : 2^x * den <= n /\ n < 2^(x + 1) * den
        k == 23 - e
        h == ShiftDiv(n, den, k)
        q == h[1]
        r == h[2]
    IN  <<IF 2 * r < den THEN q
          ELSE IF 2 * r > den THEN q + 1
          ELSE IF q % 2 = 0 THEN q ELSE q + 1, k>>

\* variant: the fraction is dropped, as a cast without lroundf does
lroundfTruncates(f) == f[1] \div 2^f[2]

\* lroundf of the non-negative float f[1] / 2^f[2]: to the nearest integer,
\* halves away from zero
lroundf(f) == (f[1] + 2^(f[2] - 1)) \div 2^f[2]

\* pctToDuty10(pct), pct a multiple of 1/8 in units of 2^-23.  The product
\* pct * 1023.0f of such a pct is a multiple of 1/8 below 2^17 and so
\* exact; the quotient by 100.0f is rounded.
pctToDuty10(pct) ==
    LET p == clampPct(pct)
        n == (p \div (ONE \div 8)) * (2^LEDC_BITS - 1)
    IN  IF n = 0 THEN 0 ELSE lroundf(F32Ratio(n, 8 * 100))

DutyInit ==
    /\ MotorOff
    /\ ProbeOff
    /\ DataOff
    /\ cmpVb = 0
    /\ cmpTrip = "none"
    /\ cmpClear = "none"
    /\ ms32 = <<0, 0>>
    /\ loopT0 = <<0, 0>>
    /\ loopDur = 0
    /\ loopBody = 0
    /\ loopRan = 0
    /\ loopPc = "none"
    /\ dutyPct \in DutyPcts
    /\ dutyRaw = -1
    /\ dutyOut = -1

\* a call of pctToDuty10(pct)
DutyConvert ==
    /\ dutyRaw = -1
    /\ dutyRaw' = pctToDuty10(DutyArg)
    /\ UNCHANGED <<motorVars, probeVars, dataVars, cmpVars, wrapVars, dutyPct,
                   dutyOut>>

\* ledc_drive(pct): the duty of the ledcWrite on the RPWM channel
ledc_drive ==
    /\ dutyOut = -1
    /\ LET c == clampPct(DutyArg)
           p == IF c < Pct(MIN_EFFECTIVE_LEDC) THEN Pct(MIN_EFFECTIVE_LEDC)
                ELSE c
       IN  dutyOut' = pctToDuty10(p)
    /\ UNCHANGED <<motorVars, probeVars, dataVars, cmpVars, wrapVars, dutyPct,
                   dutyRaw>>

DutyNext ==
    \/ DutyConvert
    \/ ledc_drive

DutySpec == DutyInit /\ [][DutyNext]_vars

----------------------------------------------------------------------------
(* The shared-frame sketches: a writer task publishes a frame, a reader   *)
(* task copies it.  The tasks run on two cores, so their statements       *)
(* interleave freely within a tick; the tick count `now` stands for       *)
(* millis().  The stamp of a frame and the plotted line do not enter the  *)
(* checksum and are left out.                                             *)

PUB_PERIOD_MS == 1000 \div 30
UI_PERIOD_MS == 1000 \div 30
DELAY_SCORE_MS == 42
UI_START_MS == 100
EPS_WINDOW_MS == 1000

\* rest = (PUB_PERIOD_MS > used) ? (PUB_PERIOD_MS - used) : 1
REST_MS ==
    IF PUB_PERIOD_MS > DELAY_SCORE_MS THEN PUB_PERIOD_MS - DELAY_SCORE_MS
    ELSE 1

\* int umpire_call(uint32_t t_ms)
umpire_call(t_ms) == (t_ms \div 200) % 10

\* const int inning = ((ms / 2000) % 9) + 1
inningAt(ms) == ((ms \div 2000) % 9) + 1

\* int checksum(int score, int inning): & 1023 of a non-negative value
checksum(score, inning) == (score * 31 + inning * 7) % 1024

Fields == {"score", "inning", "chk"}

\* f.chk != checksum(f.score, f.inning)
Torn(f) == f.chk # checksum(f.score, f.inning)

WriterSleeps == {"sleep_score1", "sleep_score2", "sleep_rest"}
ReaderSleeps == {"sleep_start", "sleep_period"}

\* setup(): the mutex is created free, the writer task is created, then the
\* reader task; g_frame holds its initializer {0, 1, 0, 0}
DataInit(which) ==
    /\ MotorOff
    /\ ProbeOff
    /\ CalcOff
    /\ sketch = which
    /\ now \in BootMsChoices
    /\ frame = [score |-> 0, inning |-> 1, chk |-> 0]
    /\ mtx = "free"
    /\ wpc = "read"
    /\ wwake = 0
    /\ wlate = FALSE
    /\ wms = 0
    /\ flip = FALSE
    /\ rpc = "begin"
    /\ rwake = 0
    /\ rlate = FALSE
    /\ fcopy = [score |-> 0, inning |-> 0, chk |-> 0]
    /\ left = {}
    /\ eps = 0
    /\ lastMs = 0

\* The tick interrupt.  A task in a delay sleeps until its tick; the code a
\* task runs between two delays takes less than two ticks, so it sees at
\* most one tick pass.
Tick ==
    /\ sketch # "none"
    /\ now < MaxMs
    /\ IF wpc \in WriterSleeps THEN now < wwake ELSE ~wlate
    /\ IF rpc \in ReaderSleeps THEN now < rwake ELSE ~rlate
    /\ now' = now + 1
    /\ wlate' = (wpc \notin WriterSleeps)
    /\ rlate' = (rpc \notin ReaderSleeps)
    /\ UNCHANGED <<motorVars, probeVars, calcVars, sketch, frame, mtx, wpc, wwake, wms,
                   flip, rpc, rwake, fcopy, left, eps, lastMs>>

\* a statement of the writer at `here` that goes on at `next`
WriterStep(here, next) ==
    /\ wpc = here
    /\ wpc' = next
    /\ UNCHANGED <<motorVars, probeVars, calcVars, sketch, now, readerVars>>

\* a statement of the reader at `here` that goes on at `next`
ReaderStep(here, next) ==
    /\ rpc = here
    /\ rpc' = next
    /\ UNCHANGED <<motorVars, probeVars, calcVars, sketch, now, writerVars>>

\* vTaskDelay(ms) of the writer: it sleeps until tick now + ms
WriterDelay(here, ms, asleep) ==
    /\ WriterStep(here, asleep)
    /\ wwake' = now + ms
    /\ wlate' = FALSE
    /\ UNCHANGED <<frame, mtx, wms, flip>>

\* g_frame.<field> = value
WriterStore(here, field, value, next) ==
    /\ WriterStep(here, next)
    /\ frame' = [frame EXCEPT ![field] = value]
    /\ UNCHANGED <<mtx, wwake, wlate, wms, flip>>

\* the writer's delay ends; after the rest of a pass of the race sketch,
\* flip = !flip
WriterWake ==
    /\ sketch # "none"
    /\ wpc \in WriterSleeps
    /\ now >= wwake
    /\ WriterStep(wpc, CASE wpc = "sleep_score1" -> "score1"
                         [] wpc = "sleep_score2" -> "chk2"
                         [] OTHER -> "read")
    /\ flip' = IF sketch = "race" /\ wpc = "sleep_rest" THEN ~flip ELSE flip
    /\ wlate' = FALSE
    /\ UNCHANGED <<frame, mtx, wwake, wms>>

\* Serial.begin(115200); delay(100)
UiBegin ==
    /\ sketch # "none"
    /\ ReaderStep("begin", "sleep_start")
    /\ rwake' = now + UI_START_MS
    /\ rlate' = FALSE
    /\ UNCHANGED <<frame, mtx, fcopy, left, eps, lastMs>>

\* the reader's delay ends
UiWake ==
    /\ sketch # "none"
    /\ rpc \in ReaderSleeps
    /\ now >= rwake
    /\ ReaderStep(rpc, IF rpc = "sleep_start" THEN "start" ELSE "take")
    /\ rlate' = FALSE
    /\ UNCHANGED <<frame, mtx, rwake, fcopy, left, eps, lastMs>>

\* uint32_t eps = 0, last_ms = millis()
UiStart ==
    /\ ReaderStep("start", "take")
    /\ eps' = 0
    /\ lastMs' = now
    /\ UNCHANGED <<frame, mtx, rwake, rlate, fcopy, left>>

\* The copy of the struct, one field at a time.  Nothing orders the loads
\* of the fields, and in the race sketch the copy races with the writer's
\* stores, so the fields are copied in any order.
UiCopy ==
    /\ rpc = "copy"
    /\ \E f \in left :
          /\ fcopy' = [fcopy EXCEPT ![f] = frame[f]]
          /\ left' = left \ {f}
          /\ rpc' = IF left = {f}
                    THEN (IF sketch = "mutex" THEN "give" ELSE "check")
                    ELSE "copy"
    /\ UNCHANGED <<motorVars, probeVars, calcVars, sketch, now, writerVars, frame, mtx,
                   rwake, rlate, eps, lastMs>>

\* vTaskDelay(pdMS_TO_TICKS(UI_PERIOD_MS))
UiPeriod ==
    /\ ReaderStep("period", "sleep_period")
    /\ rwake' = now + UI_PERIOD_MS
    /\ rlate' = FALSE
    /\ UNCHANGED <<frame, mtx, fcopy, left, eps, lastMs>>

----------------------------------------------------------------------------
(* 02_Mutex_Fix *)

\* now_ms = millis(); call and inning are computed from it
WriterRead ==
    /\ sketch = "mutex"
    /\ WriterStep("read", "take")
    /\ wms' = now
    /\ UNCHANGED <<frame, mtx, wwake, wlate, flip>>

\* variant: the writer goes on without the mutex
WriterTakeSkipped ==
    /\ WriterStep("take", "score")
    /\ UNCHANGED <<frame, mtx, wwake, wlate, wms, flip>>

\* xSemaphoreTake(g_mtx, portMAX_DELAY)
WriterTake ==
    /\ mtx = "free"
    /\ WriterStep("take", "score")
    /\ mtx' = "writer"
    /\ UNCHANGED <<frame, wwake, wlate, wms, flip>>

\* g_frame.score = call
WriterScore == WriterStore("score", "score", umpire_call(wms), "inning")

\* g_frame.inning = inning
WriterInning == WriterStore("inning", "inning", inningAt(wms), "chk")

\* g_frame.chk = checksum(g_frame.score, g_frame.inning)
WriterChk ==
    WriterStore("chk", "chk", checksum(frame.score, frame.inning), "give")

\* xSemaphoreGive(g_mtx)
WriterGive ==
    /\ WriterStep("give", "period")
    /\ mtx' = "free"
    /\ UNCHANGED <<frame, wwake, wlate, wms, flip>>

\* vTaskDelay(pdMS_TO_TICKS(PUB_PERIOD_MS))
WriterPeriod == WriterDelay("period", PUB_PERIOD_MS, "sleep_rest")

\* xSemaphoreTake(g_mtx, portMAX_DELAY); the copy begins
UiTake ==
    /\ sketch = "mutex"
    /\ mtx = "free"
    /\ ReaderStep("take", "copy")
    /\ mtx' = "ui"
    /\ left' = Fields
    /\ UNCHANGED <<frame, rwake, rlate, fcopy, eps, lastMs>>

\* xSemaphoreGive(g_mtx)
UiGive ==
    /\ ReaderStep("give", "check")
    /\ mtx' = "free"
    /\ UNCHANGED <<frame, rwake, rlate, fcopy, left, eps, lastMs>>

\* delayMicroseconds(UI_RENDER_US);
\* if (f_copy.chk != checksum(f_copy.score, f_copy.inning)) ++eps_this_sec
UiCheck ==
    /\ sketch = "mutex"
    /\ ReaderStep("check", "period")
    /\ eps' = IF Torn(fcopy) THEN eps + 1 ELSE eps
    /\ UNCHANGED <<frame, mtx, rwake, rlate, fcopy, left, lastMs>>

MutexInit == DataInit("mutex")

MutexNext ==
    \/ Tick
    \/ WriterRead
    \/ WriterTake
    \/ WriterScore
    \/ WriterInning
    \/ WriterChk
    \/ WriterGive
    \/ WriterPeriod
    \/ WriterWake
    \/ UiBegin
    \/ UiWake
    \/ UiStart
    \/ UiTake
    \/ UiCopy
    \/ UiGive
    \/ UiCheck
    \/ UiPeriod

MutexSpec == MutexInit /\ [][MutexNext]_vars

----------------------------------------------------------------------------
(* 01_Race_Condition *)

\* ms = millis(); call, inning and chk are computed from it; if (!flip)
RaceRead ==
    /\ sketch = "race"
    /\ WriterStep("read", IF flip THEN "inning2" ELSE "chk1")
    /\ wms' = now
    /\ UNCHANGED <<frame, mtx, wwake, wlate, flip>>

\* the checksum of the new call and inning
raceChk == checksum(umpire_call(wms), inningAt(wms))

\* !flip: g_frame.chk = chk
RaceChkFirst == WriterStore("chk1", "chk", raceChk, "inning1")

\* !flip: g_frame.inning = inning
RaceInningFirst == WriterStore("inning1", "inning", inningAt(wms), "delay1")

\* !flip: vTaskDelay(pdMS_TO_TICKS(DELAY_SCORE_MS))
RaceDelayFirst == WriterDelay("delay1", DELAY_SCORE_MS, "sleep_score1")

\* !flip: g_frame.score = call
RaceScoreLast == WriterStore("score1", "score", umpire_call(wms), "rest")

\* flip: g_frame.inning = inning
RaceInningOnly == WriterStore("inning2", "inning", inningAt(wms), "delay2")

\* flip: vTaskDelay(pdMS_TO_TICKS(DELAY_SCORE_MS))
RaceDelaySecond == WriterDelay("delay2", DELAY_SCORE_MS, "sleep_score2")

\* flip: g_frame.chk = chk
RaceChkLate == WriterStore("chk2", "chk", raceChk, "score2")

\* flip: g_frame.score = call
RaceScoreLate == WriterStore("score2", "score", umpire_call(wms), "rest")

\* vTaskDelay(pdMS_TO_TICKS(rest))
RaceRest == WriterDelay("rest", REST_MS, "sleep_rest")

\* const Frame f = g_frame: the copy begins
RaceUiCopy ==
    /\ sketch = "race"
    /\ ReaderStep("take", "copy")
    /\ left' = Fields
    /\ UNCHANGED <<frame, mtx, rwake, rlate, fcopy, eps, lastMs>>

\* variant: the reader never counts a frame
RaceUiCheckBlind ==
    /\ sketch = "race"
    /\ ReaderStep("check", "period")
    /\ UNCHANGED <<frame, mtx, rwake, rlate, fcopy, left, eps, lastMs>>

\* if (f.chk != checksum(f.score, f.inning)) ++eps;
\* if (millis() - last_ms >= 1000) { eps = 0; last_ms = millis(); }
RaceUiCheck ==
    /\ sketch = "race"
    /\ ReaderStep("check", "period")
    /\ IF now - lastMs >= EPS_WINDOW_MS
       THEN eps' = 0 /\ lastMs' = now
       ELSE /\ eps' = IF Torn(fcopy) THEN eps + 1 ELSE eps
            /\ UNCHANGED lastMs
    /\ UNCHANGED <<frame, mtx, rwake, rlate, fcopy, left>>

RaceInit == DataInit("race")

RaceNext ==
    \/ Tick
    \/ RaceRead
    \/ RaceChkFirst
    \/ RaceInningFirst
    \/ RaceDelayFirst
    \/ RaceScoreLast
    \/ RaceInningOnly
    \/ RaceDelaySecond
    \/ RaceChkLate
    \/ RaceScoreLate
    \/ RaceRest
    \/ WriterWake
    \/ UiBegin
    \/ UiWake
    \/ UiStart
    \/ RaceUiCopy
    \/ UiCopy
    \/ RaceUiCheck
    \/ UiPeriod

RaceSpec == RaceInit /\ [][RaceNext]_vars

----------------------------------------------------------------------------
(* Reading the history *)

DrivesOf(l) == SelectSeq(l, LAMBDA c : c.kind = "drive")

CoastsOf(l) == SelectSeq(l, LAMBDA c : c.kind = "coast")

\* this step issues a drive()
DriveIssued == Len(log') = Len(log) + 1 /\ log'[Len(log')].kind = "drive"

\* ceil(a / d) of the exact quotient, a >= 0, d > 0
CeilDiv(a, d) == (a + d - 1) \div d

Uninterrupted == ret = "done"

TypeOK ==
    /\ pc \in {"idle", "entry_fault", "entry_guard", "entry_ovwait", "jump",
               "step_fault", "step_guard", "step_ovwait", "step_drive",
               "after"}
    /\ ret \in {"none", "fault_entry", "ov_entry", "fault_step", "ov_step",
                "done"}
    /\ callsMade \in 0..MaxCalls
    /\ steps >= 2 => Abs(delta) \div steps >= ONE

----------------------------------------------------------------------------
(* Claims *)

\* C1: a safeRampTo call that reads the fault active at entry issues exactly
\* one coast(), no drive(), and returns with LastCommandedDuty as at entry.
C1_FaultShortCircuit ==
    ret = "fault_entry" => log = <<Coast>> /\ lastPct = entryPct

C1_Witness ==
    ret = "fault_entry" /\ entryPct = Pct(20) /\ targetPct # entryPct

\* C2 as stated: no drive() is issued while the fault input is active, the
\* input changing at any instant.
C2_NoDriveWhileFaultInput == [][DriveIssued => ~faultActive]_vars

\* C2 as amended: once a faultActive() check has read the input active, the
\* next backend call is coast(): every drive() is issued with the most recent
\* faultActive() result false.
C2_NoDriveAfterFaultRead == [][DriveIssued => ~faultSeen']_vars

C2_Witness ==
    /\ ret = "fault_step"
    /\ faultSeen
    /\ lastCall = Coast
    /\ Len(DrivesOf(log)) >= 1

\* C3 as stated: after an over-voltage trip no drive() is issued until a
\* supply reading below the clear threshold has been observed.
C3_NoDriveUntilCleared == [][DriveIssued => ~ovLatched]_vars

\* C4: when guardOverVoltage reports a trip inside safeRampTo, coast() was
\* called once for the trip, it is the last backend call of the safeRampTo
\* call, and LastCommandedDuty is 0 at the return.
C4_OvTripResets ==
    ret \in {"ov_entry", "ov_step"} =>
        /\ lastPct = 0
        /\ Len(log) >= 1
        /\ log[Len(log)] = Coast
        /\ Len(DrivesOf(log)) = i
        /\ Len(CoastsOf(log)) =
              1 + (IF ret = "ov_step" /\ Abs(delta) >= Pct(COAST_BEFORE_JUMP_PCT)
                   THEN 1 ELSE 0)
        /\ \A k \in 2..(Len(log) - 1) : log[k].kind = "drive"

C4_Witness ==
    /\ ret = "ov_step"
    /\ i >= 1
    /\ entryPct # 0
    /\ Len(CoastsOf(log)) = 2

\* C5 as stated: two consecutive drive() calls with no coast() between them
\* differ by at most MAX_SLEW_STEP_PCT.
C5_SlewLimit ==
    [][(DriveIssued /\ lastCall.kind = "drive") =>
          Abs(lastCall'.pct - lastCall.pct) <= Pct(MAX_SLEW_STEP_PCT)]_vars

\* C6 as stated: entered with LastCommandedDuty in [0,100], safeRampTo passes
\* only duties in [0,100] to drive().
C6_DriveInRange ==
    (entryPct >= 0 /\ entryPct <= Pct(100)) =>
        \A k \in DOMAIN log :
            log[k].kind = "drive" => log[k].pct >= 0 /\ log[k].pct <= Pct(100)

\* C7 as stated: an uninterrupted safeRampTo call returns with
\* LastCommandedDuty equal to the clamped target, and its last drive() is
\* made with exactly the target.
C7_Converges ==
    Uninterrupted =>
        /\ lastPct = targetPct
        /\ DrivesOf(log) # <<>>
        /\ DrivesOf(log)[Len(DrivesOf(log))].pct = targetPct

\* C8 as stated: an uninterrupted call issues exactly ceil(|T - L| / S)
\* drive() calls.
C8_DriveCount ==
    Uninterrupted =>
        Len(DrivesOf(log)) =
            CeilDiv(Abs(targetPct - entryPct), Pct(MAX_SLEW_STEP_PCT))

\* C8 as amended: an uninterrupted call issues exactly
\* max(1, ceil(|delta| / S)) drive() calls, delta being the float difference
\* T - L the call computes at entry.
C8_DriveCountMin1 ==
    Uninterrupted =>
        Len(DrivesOf(log)) =
            (IF delta = 0 THEN 1
             ELSE CeilDiv(Abs(delta), Pct(MAX_SLEW_STEP_PCT)))

C8_Witness ==
    Uninterrupted /\ delta = 0 /\ Len(DrivesOf(log)) = 1

\* C9: an uninterrupted call whose clamped target equals LastCommandedDuty
\* leaves it unchanged, issues no coast(), and at most one drive(), made with
\* the unchanged duty.
C9_Idempotent ==
    (Uninterrupted /\ targetPct = entryPct) =>
        /\ lastPct = entryPct
        /\ CoastsOf(log) = <<>>
        /\ Len(DrivesOf(log)) <= 1
        /\ \A k \in DOMAIN log : log[k] = Drive(entryPct)

C9_Witness ==
    Uninterrupted /\ targetPct = entryPct /\ entryPct = Pct(20)

\* C10: in an uninterrupted call with |delta| >= COAST_BEFORE_JUMP_PCT the
\* backend calls are coast(), the drive() steps, coast(); with |delta| below
\* the threshold there is no coast() at all.
C10_JumpBracket ==
    Uninterrupted =>
        IF Abs(delta) >= Pct(COAST_BEFORE_JUMP_PCT)
        THEN /\ Len(log) >= 3
             /\ log[1] = Coast
             /\ log[Len(log)] = Coast
             /\ \A k \in 2..(Len(log) - 1) : log[k].kind = "drive"
        ELSE CoastsOf(log) = <<>>

C10_Witness ==
    /\ Uninterrupted
    /\ Abs(targetPct - entryPct) = Pct(COAST_BEFORE_JUMP_PCT)
    /\ Len(CoastsOf(log)) = 2

\* C11 as stated: within one safeRampTo call whose target differs from
\* LastCommandedDuty, the duties passed to drive() move strictly toward the
\* target, never pass it, and every step (from the duty at entry to the
\* first drive, and from each drive to the next) has the same size, of
\* magnitude at most MAX_SLEW_STEP_PCT.
C11_MonotoneEqualSteps ==
    LET d == DrivesOf(log)
        at(k) == IF k = 0 THEN entryPct ELSE d[k].pct
        up == targetPct > entryPct
    IN  (pc # "idle" \/ ret # "none") /\ targetPct # entryPct =>
            \A k \in 1..Len(d) :
                /\ IF up THEN at(k) > at(k - 1) ELSE at(k) < at(k - 1)
                /\ IF up THEN at(k) <= targetPct ELSE at(k) >= targetPct
                /\ at(k) - at(k - 1) = at(1) - at(0)
                /\ Abs(at(k) - at(k - 1)) <= Pct(MAX_SLEW_STEP_PCT)

\* C12: the last backend call made before a phase routine returns is
\* coast(), whatever the fault and voltage inputs did.
C12_PhaseEndsInCoast ==
    [][(orch \in PhaseNames /\ orch' # orch) => lastCall' = Coast]_vars

C12_Witness ==
    /\ orch = "step_load"
    /\ ph = "start"
    /\ ~disturbed
    /\ Len(rampTargets) >= 2
    /\ lastCall = Coast

\* C13: every phase invocation eventually returns control to loop(),
\* whatever the inputs do, as long as the clock advances.
C13_PhasesReturn == \A p \in PhaseNames : (orch = p) ~> (orch # p)

C13_Witness ==
    /\ orch = "cooldown"
    /\ FAULT_PIN >= 0
    /\ faultActive
    /\ inputChanges = 0

\* C14: guardOverVoltage always returns; after a trip it polls every
\* OV_POLL_MS for at most OV_WAIT_MS of clock time, and it returns true
\* also when the window ends with the voltage never below the clear
\* threshold.
C14_GuardReturns ==
    /\ [](/\ gMs <= OV_WAIT_MS
          /\ gPolls <= OvMaxPolls
          /\ gpc = "poll" => gMs = gPolls * OV_POLL_MS
          /\ gResult \in {"none", "true", "false"}
          /\ (gpc = "returned" /\ lastCall = Coast) =>
                /\ gResult = "true"
                /\ gPolls \in OvWaitPolls(gFirst, gLast))
    /\ <>(gpc = "returned")

C14_Witness ==
    /\ gpc = "returned"
    /\ gResult = "true"
    /\ gPolls = OvMaxPolls
    /\ gMs = OV_WAIT_MS
    /\ ~OvClears(VbusOf(gLast))

\* C15: at most one backend is armed, and begin() of a backend is only
\* called when the other backend has been ended since its last begin(), on
\* every pass of loop().
C15_OneBackendArmed ==
    /\ [](Cardinality(armed) <= 1)
    /\ [][(orch = "begin" /\ orch' # orch) =>
              (armed = {} /\ armed' = {backend})]_vars

C15_Witness ==
    /\ orch = "warmup"
    /\ ph = "start"
    /\ backend = "MCPWM"
    /\ armed = {"MCPWM"}
    /\ lastPct = Pct(SOAK_DUTY)

\* C16: loop() repeats forever begin(MCPWM), Warmup, StepLoad, Bursts, Soak,
\* end(MCPWM), cooldown, begin(LEDC), Warmup, StepLoad, Bursts, Soak,
\* end(LEDC), cooldown; no phase is skipped or reordered, also after a
\* phase left early on a fault.
C16_PhaseOrder ==
    /\ orch = "begin" /\ backend = "MCPWM"
    /\ [][/\ orch' # orch => orch' = NextStmt(orch)
          /\ backend' # backend <=> (orch = "cooldown" /\ orch' = "begin")]_vars
    /\ \A b \in Backends : []<>(orch = "begin" /\ backend = b)

C16_Witness ==
    /\ orch = "soak"
    /\ ph = "start"
    /\ backend = "LEDC"
    /\ faultSeen

\* C17: every drive() and coast() call of the phase routines, of safeRampTo
\* and of end() is addressed to the backend that is armed: wherever such a
\* call can be made, the backend passed on by loop() is the one armed.
C17_CallsToArmedBackend ==
    (orch \in PhaseNames \cup {"end"} \/ pc # "idle") => armed = {backend}

C17_Witness ==
    /\ orch = "bursts"
    /\ backend = "LEDC"
    /\ pc = "step_drive"

\* C18: do_step_load with a 1000 ms duration, a 500 ms dwell and targets
\* 35 and 75, run without fault or over-voltage, changes its ramp target
\* exactly once and ends with a coast().
C18_StepLoadTogglesOnce ==
    (/\ orch = "bursts"
     /\ ph = "start"
     /\ ~disturbed
     /\ STEP_BLOCK_MS = 1000
     /\ STEP_HOLD_MS = 500) =>
        /\ Cardinality({k \in 1..(Len(rampTargets) - 1) :
                           rampTargets[k] # rampTargets[k + 1]}) = 1
        /\ \A k \in DOMAIN rampTargets : rampTargets[k] \in {35, 75}
        /\ lastCall = Coast

C18_Witness ==
    /\ orch = "bursts"
    /\ ph = "start"
    /\ ~disturbed
    /\ rampTargets = <<STEP_LOW, STEP_HIGH>>
    /\ hi = FALSE

C20_BurstHeldInOnWindow ==
    (orch = "bursts" /\ onWindowCall # NoCall /\ ~disturbed) =>
        onWindowCall = Drive(Pct(BURST_DUTY))

C22_FaultLeavesPhase ==
    [][/\ (orch \in PhaseNames /\ ph = "check" /\ pc = "idle" /\ faultActive
            /\ ph' # ph) =>
            /\ ph' = "end"
            /\ lastCall' = Coast
            /\ el' = el
            /\ rampTargets' = rampTargets
       /\ (orch \in PhaseNames /\ ph = "end" /\ <<orch, ph>>' # <<orch, ph>>) =>
            /\ orch' = NextStmt(orch)
            /\ lastCall' = Coast
            /\ el' = Later(el, EndGapMs(orch))
            /\ rampTargets' = rampTargets]_vars

C22_Witness ==
    /\ orch = "bursts"
    /\ ph = "end"
    /\ faultSeen
    /\ lastCall = Coast
    /\ Len(rampTargets) = 1
    /\ el < BURST_BLOCK_MS - BURST_ON_MS

\* C23: faultActive() returns true exactly when the fault input is enabled
\* (pin >= 0) and the level read is the active one (LOW when
\* FAULT_ACTIVE_LOW, HIGH otherwise); with a disabled pin it returns false
\* for every level.
C23_FaultActiveIff ==
    probeResult # "none" =>
        /\ probeResult = "true" <=>
               /\ probePin >= 0
               /\ probeLevel = (IF probeActiveLow THEN "LOW" ELSE "HIGH")
        /\ probePin < 0 => probeResult = "false"

C23_Witness ==
    /\ probePin = -1
    /\ probeActiveLow
    /\ probeLevel = "LOW"
    /\ probeResult = "false"

\* C24: the fault interlock does not latch.  A fault check of safeRampTo
\* ends the call exactly when the input reads active at that check, whatever
\* earlier checks read; the call that follows a short-circuited one starts
\* from the LastCommandedDuty that one left; and a call that reaches its end
\* has driven once per step, the first drive being that duty plus stepSize.
C24_FaultDoesNotLatch ==
    [][/\ (pc \in {"entry_fault", "step_fault"} /\ pc' # pc) =>
            (ret' \in {"fault_entry", "fault_step"} <=> faultActive)
       /\ (pc = "idle" /\ pc' = "entry_fault"
            /\ ret \in {"fault_entry", "fault_step"}) =>
            /\ lastPct' = lastPct
            /\ entryPct' = lastPct
            /\ delta' = F32Sub(targetPct', lastPct)
       /\ (ret = "none" /\ ret' = "done") =>
            /\ steps >= 1
            /\ Len(DrivesOf(log')) = steps
            /\ DrivesOf(log')[1].pct = F32Add(entryPct, stepSize)]_vars

\* the second call of a behaviour: the first one, from 20 to 32, was ended
\* by the fault check of its second step and left 26, a duty only that abort
\* produces; this one ramps from 26 to 32 with the input inactive
C24_Witness ==
    /\ callsMade = 2
    /\ ret = "done"
    /\ entryPct = Pct(26)
    /\ targetPct = Pct(32)
    /\ Len(DrivesOf(log)) = 2
    /\ ~faultActive

\* C25 as stated, for the calls that issued a drive(): at every return of
\* safeRampTo that is not an over-voltage reset, LastCommandedDuty equals
\* the duty of the most recent drive(), also when a per-step fault check
\* ended the ramp.
C25_LastPctIsLastDrive ==
    (/\ pc = "idle"
     /\ ret \in {"done", "fault_entry", "fault_step"}
     /\ DrivesOf(log) # <<>>) =>
        lastPct = DrivesOf(log)[Len(DrivesOf(log))].pct

\* C26: LastCommandedDuty is per backend.  While loop() runs one half, the
\* duty of the other backend is not written, and safeRampTo computes from
\* the duty of the backend it is called for; outside safeRampTo nothing
\* writes the duty, so a phase starts from what the previous phase left
\* (the closing coast() of a phase does not change it); at the change of
\* halves each backend keeps its own duty.
C26_DutyPerBackend ==
    [][/\ orch # "cooldown" => idlePct' = idlePct
       /\ (orch # "cooldown" /\ pc = "idle") => lastPct' = lastPct
       /\ (ph = "ramp" /\ ph' = "check") =>
            /\ entryPct' = lastPct
            /\ delta' = F32Sub(targetPct', lastPct)
       /\ (orch = "cooldown" /\ orch' # orch) =>
            /\ lastPct' = idlePct
            /\ idlePct' = lastPct]_vars

C26_Witness ==
    /\ backend = "LEDC"
    /\ orch = "step_load"
    /\ ph = "check"
    /\ Len(rampTargets) = 1
    /\ entryPct = Pct(WARMUP_DUTY)
    /\ idlePct = Pct(SOAK_DUTY)

\* C30: when faultActive() reads true at a per-step check, safeRampTo calls
\* coast() once for that check and returns at once: no further drive(), no
\* closing coast() and settle delay, and LastCommandedDuty keeps the value
\* the step advanced it to instead of being reset to 0.
C30_StepFaultReturns ==
    [][(ret = "none" /\ ret' = "fault_step") =>
          /\ pc = "step_fault"
          /\ faultActive
          /\ pc' = "idle"
          /\ log' = Append(log, Coast)
          /\ Len(DrivesOf(log')) = i
          /\ Len(CoastsOf(log')) = 1 + (IF IsJump(delta) THEN 1 ELSE 0)
          /\ el' = el
          /\ lastPct' = F32Add(lastPct, stepSize)
          /\ lastPct' = F32Add(IF i = 0 THEN entryPct
                               ELSE DrivesOf(log)[i].pct, stepSize)]_vars

C30_Witness ==
    /\ orch = "step_load"
    /\ ph = "check"
    /\ pc = "idle"
    /\ ret = "fault_step"
    /\ IsJump(delta)
    /\ Len(DrivesOf(log)) >= 2
    /\ lastPct # 0

\* C29: when the fault input is active at the end of a delay (slew tick,
\* coast window before or after a jump, dwell, burst on-window, decay gap,
\* tick between calls, post-phase gap, end of a phase, cool-down,
\* over-voltage wait) and stays active, no drive() is issued from then on,
\* and a backend call that changes the outputs is coast().
C29_NoDriveAfterFaultInWait ==
    [][(waitFault = "fault" \/ (waitFault = "wait" /\ faultActive)) =>
          /\ ~DriveIssued
          /\ lastCall' # lastCall => lastCall' = Coast]_vars

\* the fault input became active during a slew tick: the ramp had driven,
\* and its next step check ended it
C29_Witness ==
    /\ waitFault = "fault"
    /\ inputChanges = 1
    /\ faultActive
    /\ ret = "fault_step"
    /\ Len(DrivesOf(log)) >= 1
    /\ lastCall = Coast

\* C27: in the mutex sketch every frame copy the reader has completed
\* satisfies chk = checksum(score, inning), whatever the interleaving of the
\* two tasks, and the error counter stays 0.
C27_MutexCopyConsistent ==
    sketch = "mutex" =>
        /\ eps = 0
        /\ rpc \in {"give", "check", "period", "sleep_period"} => ~Torn(fcopy)

\* the reader has completed a copy of a frame the writer published after the
\* call changed, while the writer waits for the mutex to publish the next
C27_Witness ==
    /\ sketch = "mutex"
    /\ rpc = "give"
    /\ mtx = "ui"
    /\ wpc = "take"
    /\ fcopy.score >= 1
    /\ ~Torn(fcopy)

\* C28: in the race sketch the reader counts a frame exactly when its copy
\* has chk # checksum(score, inning), and such a copy is reachable: the
\* writer stores the fields of one update at different times and nothing
\* keeps the copy out of the gap.
C28_TornCopyCounted ==
    [][(sketch = "race" /\ rpc = "check" /\ rpc' = "period"
            /\ now - lastMs < EPS_WINDOW_MS) =>
          eps' = IF Torn(fcopy) THEN eps + 1 ELSE eps]_vars

\* the reader copied while the writer slept between its stores of chk and
\* of score: the copy has the new chk with the old score, and is counted
C28_Witness ==
    /\ sketch = "race"
    /\ rpc = "period"
    /\ wpc = "sleep_score1"
    /\ Torn(fcopy)
    /\ fcopy.chk = frame.chk
    /\ fcopy.score = frame.score
    /\ fcopy.inning = frame.inning
    /\ eps >= 1

\* C31: guardOverVoltage trips only for a non-negative reading strictly
\* above 28.0 V, so a reading of exactly 28.0 V does not trip; its wait loop
\* ends early only for a non-negative reading strictly below 26.5 V, so a
\* reading of exactly 26.5 V, or a negative one, does not clear.
C31_StrictThresholds ==
    /\ cmpTrip # "none" => (cmpTrip = "true" <=> cmpVb > 28000)
    /\ cmpClear # "none" => (cmpClear = "true" <=> (0 <= cmpVb /\ cmpVb < 26500))

\* both tests were made on a reading of exactly 28.0 V
C31_Witness ==
    /\ cmpVb = 28000
    /\ cmpTrip = "false"
    /\ cmpClear = "false"

\* C32: a guardOverVoltage that does not trip - sensing disabled, or a
\* reading at or below the trip threshold - returns false with no coast()
\* and no wait: the call log, the last backend call, the clock and
\* LastCommandedDuty are as before and safeRampTo goes on; and with sensing
\* disabled safeRampTo never enters the over-voltage wait, so it never
\* resets LastCommandedDuty to 0.
C32_NoTripNoEffect ==
    /\ [][(/\ pc \in {"entry_guard", "step_guard"}
           /\ pc' # pc
           /\ SUPPLY_ADC_PIN < 0 \/ supplyMv * VDIV_RATIO <= 28000) =>
             /\ log' = log
             /\ lastCall' = lastCall
             /\ el' = el
             /\ lastPct' = lastPct
             /\ pc' = IF pc = "entry_guard" THEN "jump" ELSE "step_drive"]_vars
    /\ [](SUPPLY_ADC_PIN < 0 =>
             /\ pc \notin {"entry_ovwait", "step_ovwait"}
             /\ ret \notin {"ov_entry", "ov_step"}
             /\ ~ovLatched)

\* with sensing disabled the guard of a later step has let the ramp go on
\* to its drive(), the duty being the sum of the steps so far
C32_Witness ==
    /\ orch \in PhaseNames
    /\ SUPPLY_ADC_PIN < 0
    /\ pc = "step_drive"
    /\ i >= 1
    /\ lastPct # 0
    /\ DrivesOf(log) # <<>>

\* C33 as stated: in every dwell of do_step_load run without fault or
\* over-voltage, the last backend call before delay(STEP_HOLD_MS) is
\* drive(target), target being STEP_HIGH or STEP_LOW as the toggle says.
C33_StepHeldInDwell ==
    (orch = "step_load" /\ ph = "tick" /\ ~disturbed) =>
        lastCall = Drive(Pct(IF hi THEN STEP_HIGH ELSE STEP_LOW))

\* C34 as stated: in every pass of loop() the first drive() issued to a
\* backend after its begin() - the first drive of the first safeRampTo of
\* the warm-up - has a duty of at most MAX_SLEW_STEP_PCT.
C34_FirstDriveFromRest ==
    (/\ orch = "warmup"
     /\ Len(rampTargets) = 1
     /\ pc # "idle"
     /\ DrivesOf(log) # <<>>) =>
        DrivesOf(log)[1].pct <= Pct(MAX_SLEW_STEP_PCT)

\* C35 as stated: in every reachable state the LastCommandedDuty of each
\* backend lies in [0,100], and during a safeRampTo call it lies between
\* its value at the entry of the call and the clamped target, or is 0.
C35_DutyBetweenEntryAndTarget ==
    /\ lastPct >= 0 /\ lastPct <= Pct(100)
    /\ idlePct >= 0 /\ idlePct <= Pct(100)
    /\ pc # "idle" =>
          \/ lastPct = 0
          \/ entryPct <= lastPct /\ lastPct <= targetPct
          \/ targetPct <= lastPct /\ lastPct <= entryPct

\* C36: the test millis() - t0 < duration, a uint32_t difference, decides
\* by the time that has really passed since t0, also when millis() has
\* wrapped since: the loop goes on exactly while less than the duration has
\* passed, so it neither ends at once nor runs on after the duration.
C36_ElapsedAcrossWrap ==
    /\ [][loopPc = "test" =>
            (loopPc' = "body" <=> loopRan < loopDur)]_vars
    /\ [](loopPc = "left" =>
            loopRan >= loopDur /\ loopRan < loopDur + loopBody)

\* a loop that took its t0 before the wrap was still running after it, and
\* has ended after its duration
C36_Witness ==
    /\ loopPc = "left"
    /\ loopT0[1] >= HALF - 2
    /\ ms32[1] < HALF - 2
    /\ loopRan >= loopDur

\* C37: end() of either backend coasts and releases the shared pins: when
\* it returns, the last backend call is coast() and RPWM, LPWM and EN are all
\* configured as inputs; so every begin() finds all three pins released.
C37_EndReleasesPins ==
    /\ [][(orch = "end" /\ orch' # "end") =>
            /\ lastCall' = Coast
            /\ \A p \in SharedPins : pinModes'[p] = "INPUT"]_vars
    /\ [][(orch = "begin" /\ orch' # "begin") =>
            \A p \in SharedPins : pinModes[p] = "INPUT"]_vars

\* after the MCPWM half and the cool-down, loop() is about to begin the LEDC
\* backend with the three pins released
C37_Witness ==
    /\ orch = "begin"
    /\ backend = "LEDC"
    /\ lastCall = Coast
    /\ armed = {}
    /\ \A p \in SharedPins : pinModes[p] = "INPUT"


\* C38: pctToDuty10 gives 0 for an argument below 0 and 1023 for one of 100
\* or more, for a whole percentage 0..100 gives pct*1023/100 rounded to the
\* nearest integer, never falls when the argument grows, and the duty that
\* ledc_drive writes lies in [0, 1023].
C38_DutyInRange ==
    /\ dutyRaw # -1 =>
          /\ dutyRaw \in 0 .. 1023
          /\ dutyPct < 0 => dutyRaw = 0
          /\ dutyPct >= 8 * 100 => dutyRaw = 1023
          /\ (dutyPct \in 0 .. 8 * 100 /\ dutyPct % 8 = 0) =>
                dutyRaw = (2 * (dutyPct \div 8) * 1023 + 100) \div (2 * 100)
          /\ (dutyPct - 1) \in DutyPcts =>
                pctToDuty10((dutyPct - 1) * (ONE \div 8)) <= dutyRaw
    /\ dutyOut # -1 => dutyOut \in 0 .. 1023

\* both calls made for 50 %, where the quotient 511.5 lies halfway between
\* two duties
C38_Witness ==
    /\ dutyPct = 8 * 50
    /\ dutyRaw = 512
    /\ dutyOut = 512

====
